---- MODULE Spec2Model ----
(***************************************************************************)
(* SoroScan Python SDK: the response decoder (_handle_response), the       *)
(* request builders and the facade methods of SoroScanClient /             *)
(* AsyncSoroScanClient (sdk/python/soroscan/client.py), the pydantic       *)
(* entity schemas (models.py) and the exception hierarchy (exceptions.py). *)
(*                                                                         *)
(* The facade actions are those of SoroScanClient.  The methods of          *)
(* AsyncSoroScanClient are modelled a second time, from their own lines, as *)
(* functions of the call's inputs (AsyncRequest, AsyncOutcome) and as the   *)
(* coroutines of the gather workflow.                                       *)
(***************************************************************************)
EXTENDS Integers, Sequences, FiniteSets, TLC

VARIABLES
    client,      \* the facade's fields, set by __init__
    op,          \* the facade method called last
    args,        \* its arguments
    request,     \* the request it handed to the transport
    response,    \* what the transport gave back: a response or an exception
    outcome,     \* what the caller got: a returned value or a raised exception
    json_calls,  \* how many times the call ran response.json()
    transport_calls, \* how many times the call invoked self._client
    sent_via,    \* the transport object the call invoked (0: none)
    transport,   \* the httpx clients created so far, each open or closed
    scope,       \* where the caller stands with respect to a `with client:`
    tasks,       \* the coroutines handed to asyncio.gather, in order
    in_flight,   \* their requests the shared transport has not answered yet
    completed,   \* the tasks in the order their responses arrived
    gathered,    \* what asyncio.gather gave back
    pager,       \* the caller loop that walks the pages of get_events
    decoding,    \* one call of cls.model_validate(data) and its result
    server       \* the collection the paginating server holds

\* The state of the caller workflows (the gathered coroutines, the pager),
\* of the stand-alone decoding and of the paginating server.
workflows == <<tasks, in_flight, completed, gathered, pager, decoding, server>>

vars ==
    <<client, op, args, request, response, outcome, json_calls,
      transport_calls, sent_via, transport, scope, workflows>>

----------------------------------------------------------------------------
(* Python / JSON values, tagged so that values of different types compare. *)

JNull == [t |-> "null"]
JStr(s) == [t |-> "str", s |-> s]
JInt(n) == [t |-> "int", n |-> n]
JBool(b) == [t |-> "bool", b |-> b]
JArr(a) == [t |-> "arr", a |-> a]
JObj(o) == [t |-> "obj", o |-> o]

EmptyDict == JObj(<<>>)

\* Python truth value of a value (the `or` chains and `if x:` tests).
Truthy(v) ==
    CASE v.t = "null" -> FALSE
      [] v.t = "str" -> v.s # ""
      [] v.t = "int" -> v.n # 0
      [] v.t = "bool" -> v.b
      [] v.t = "arr" -> v.a # <<>>
      [] v.t = "obj" -> DOMAIN v.o # {}
      [] OTHER -> TRUE

\* a or b
PyOr(a, b) == IF Truthy(a) THEN a ELSE b

\* dict.get(key): the value, or None when the key is absent.
DictGet(d, key) == IF key \in DOMAIN d.o THEN d.o[key] ELSE JNull

\* A one-entry dict update, applied only when cond holds.
SetIf(cond, key, v) == IF cond THEN key :> v ELSE <<>>

----------------------------------------------------------------------------
(* Outcomes of a Python call: a returned value or a raised exception.      *)

Return(v) == [tag |-> "return", value |-> v]

\* An exception that carries nothing the model reads.
Raise(exc) == [tag |-> "raise", exc |-> exc]

\* SoroScanAPIError.__init__ (shared by every subclass).
SoroScanAPIError(exc, message, status_code, response_data) ==
    [tag |-> "raise", exc |-> exc, message |-> message,
     status_code |-> status_code,
     response_data |-> PyOr(response_data, EmptyDict)]

\* Base with SoroScanNotFoundError derived from SoroScanError directly.
MutBaseNotFoundOffAPIError(exc) ==
    CASE exc = "SoroScanError" -> "Exception"
      [] exc = "SoroScanAPIError" -> "SoroScanError"
      [] exc = "SoroScanAuthError" -> "SoroScanAPIError"
      [] exc = "SoroScanNotFoundError" -> "SoroScanError"
      [] exc = "SoroScanRateLimitError" -> "SoroScanAPIError"
      [] exc = "SoroScanValidationError" -> "SoroScanAPIError"
      [] OTHER -> "Exception"

\* The class hierarchy of exceptions.py: each class's direct base.
Base(exc) ==
    CASE exc = "SoroScanError" -> "Exception"
      [] exc = "SoroScanAPIError" -> "SoroScanError"
      [] exc = "SoroScanAuthError" -> "SoroScanAPIError"
      [] exc = "SoroScanNotFoundError" -> "SoroScanAPIError"
      [] exc = "SoroScanRateLimitError" -> "SoroScanAPIError"
      [] exc = "SoroScanValidationError" -> "SoroScanAPIError"
      [] OTHER -> "Exception"

\* isinstance(e, cls) for the classes above (depth of the hierarchy is 3).
IsInstance(exc, cls) ==
    \/ exc = cls
    \/ Base(exc) = cls
    \/ Base(Base(exc)) = cls
    \/ Base(Base(Base(exc))) = cls

\* The attributes an instance of each class carries: SoroScanError defines
\* no __init__ (the message is Exception's), SoroScanAPIError.__init__ sets
\* status_code and response_data and the four subclasses inherit it.
Attributes(cls) ==
    IF IsInstance(cls, "SoroScanAPIError")
    THEN {"message", "status_code", "response_data"}
    ELSE {"message"}

\* The except clauses of handle_specific_errors, in order
\* (examples/error_handling.py 27-48).
HandlerChain ==
    <<"SoroScanNotFoundError", "SoroScanAuthError", "SoroScanRateLimitError",
      "SoroScanValidationError", "SoroScanAPIError", "SoroScanError">>

\* The clause of a try statement that takes exception exc: the first whose
\* class exc is an instance of (0: none, the exception goes on).
Dispatch(chain, exc) ==
    IF \E i \in DOMAIN chain : IsInstance(exc, chain[i])
    THEN CHOOSE i \in DOMAIN chain :
            /\ IsInstance(exc, chain[i])
            /\ \A k \in 1..(i - 1) : ~IsInstance(exc, chain[k])
    ELSE 0

APIErrorKinds ==
    {"SoroScanAPIError", "SoroScanAuthError", "SoroScanNotFoundError",
     "SoroScanRateLimitError", "SoroScanValidationError"}

----------------------------------------------------------------------------
(* HTTP responses handed back by the transport (httpx).  A body is its raw  *)
(* text together with what response.json() makes of it.                     *)

JsonInvalid == [t |-> "invalid"]

Body(text, json) == [text |-> text, json |-> json]

\* Bodies that do not parse as JSON.
EmptyBody == Body("", JsonInvalid)
HtmlBody == Body("<html>Bad Gateway</html>", JsonInvalid)

\* Bodies that parse, but not to a JSON object.
ArrayBody == Body("[\"Not found\"]", JArr(<<JStr("Not found")>>))
StringBody == Body("\"Not found\"", JStr("Not found"))
NumberBody == Body("7", JInt(7))
NullBody == Body("null", JNull)

\* JSON objects as an error response carries them.
EmptyObjectBody == Body("{}", EmptyDict)
DetailBody ==
    Body("{\"detail\":\"Not found\"}", JObj([detail |-> JStr("Not found")]))
ErrorBody ==
    Body("{\"error\":\"Invalid contract_id\"}",
         JObj([error |-> JStr("Invalid contract_id")]))
DetailAndErrorBody ==
    Body("{\"detail\":\"D\",\"error\":\"E\"}",
         JObj([detail |-> JStr("D"), error |-> JStr("E")]))
EmptyDetailBody ==
    Body("{\"detail\":\"\",\"error\":\"E\"}",
         JObj([detail |-> JStr(""), error |-> JStr("E")]))
NullDetailBody ==
    Body("{\"detail\":null}", JObj([detail |-> JNull]))
OtherKeyBody ==
    Body("{\"message\":\"boom\"}", JObj([message |-> JStr("boom")]))

UnparseableBodies == {EmptyBody, HtmlBody}
NonObjectBodies == {ArrayBody, StringBody, NumberBody, NullBody}
ErrorObjectBodies ==
    {EmptyObjectBody, DetailBody, ErrorBody, DetailAndErrorBody,
     EmptyDetailBody, NullDetailBody, OtherKeyBody}

\* response.json(): the parsed body, or json.JSONDecodeError.
response_json(r) ==
    IF r.body.json = JsonInvalid
    THEN Raise("JSONDecodeError")
    ELSE Return(r.body.json)

\* response.text
response_text(r) == JStr(r.body.text)

----------------------------------------------------------------------------
(* _handle_response (client.py 73-97 and 502-525).                          *)

\* The if/elif chain that picks the exception class (lines 88-97).
ErrorKind(status_code) ==
    IF status_code = 400 THEN "SoroScanValidationError"
    ELSE IF status_code = 401 \/ status_code = 403 THEN "SoroScanAuthError"
    ELSE IF status_code = 404 THEN "SoroScanNotFoundError"
    ELSE IF status_code = 429 THEN "SoroScanRateLimitError"
    ELSE "SoroScanAPIError"

\* try: error_data = response.json() / except Exception: error_data = {}
ErrorData(r) ==
    IF response_json(r).tag = "raise" THEN EmptyDict ELSE response_json(r).value

\* ErrorMessage with the fallback to response.text left out.
MutErrorMessageNoText(error_data, r) ==
    PyOr(DictGet(error_data, "detail"), DictGet(error_data, "error"))

\* ErrorMessage with `error` looked up before `detail`.
MutErrorMessageErrorFirst(error_data, r) ==
    PyOr(DictGet(error_data, "error"),
         PyOr(DictGet(error_data, "detail"), response_text(r)))

\* error_data.get("detail") or error_data.get("error") or response.text
ErrorMessage(error_data, r) ==
    PyOr(DictGet(error_data, "detail"),
         PyOr(DictGet(error_data, "error"), response_text(r)))

\* handle_response with 202 not taken as a success.
MutHandleResponseNo202(r) ==
    IF r.status_code = 200 \/ r.status_code = 201 THEN response_json(r)
    ELSE SoroScanAPIError(ErrorKind(r.status_code),
                          ErrorMessage(EmptyDict, r), r.status_code, EmptyDict)

handle_response(r) ==
    IF r.status_code = 200 \/ r.status_code = 201 THEN response_json(r)
    ELSE IF r.status_code = 202 THEN response_json(r)
    ELSE LET error_data == ErrorData(r)
         IN  IF error_data.t # "obj"
             THEN \* .get on a list, str, int or None: the lookup itself raises
                  Raise("AttributeError")
             ELSE SoroScanAPIError(ErrorKind(r.status_code),
                                   ErrorMessage(error_data, r),
                                   r.status_code, error_data)

----------------------------------------------------------------------------
(* The pydantic schemas of models.py.  A schema maps each field to its     *)
(* type, whether it is required, and its default.                           *)

Required(ty) == [ty |-> ty, required |-> TRUE, default |-> JNull]
Default(ty, d) == [ty |-> ty, required |-> FALSE, default |-> d]

TrackedContract ==
    [id |-> Required("int"),
     contract_id |-> Required("str"),
     name |-> Required("str"),
     description |-> Default("str", JStr("")),
     abi_schema |-> Default("dict?", JNull),
     is_active |-> Default("bool", JBool(TRUE)),
     last_indexed_ledger |-> Default("int?", JNull),
     event_count |-> Default("int", JInt(0)),
     created_at |-> Required("datetime"),
     updated_at |-> Required("datetime")]

ContractEvent ==
    [id |-> Required("int"),
     contract_id |-> Required("str"),
     contract_name |-> Required("str"),
     event_type |-> Required("str"),
     payload |-> Required("dict"),
     payload_hash |-> Required("str"),
     ledger |-> Required("int"),
     event_index |-> Default("int", JInt(0)),
     timestamp |-> Required("datetime"),
     tx_hash |-> Required("str"),
     schema_version |-> Default("int?", JNull),
     validation_status |-> Default("str", JStr("passed"))]

WebhookSubscription ==
    [id |-> Required("int"),
     contract |-> Required("int"),
     contract_id |-> Required("str"),
     event_type |-> Default("str", JStr("")),
     target_url |-> Required("str"),
     is_active |-> Default("bool", JBool(TRUE)),
     created_at |-> Required("datetime"),
     last_triggered |-> Default("datetime?", JNull),
     failure_count |-> Default("int", JInt(0))]

ContractStats ==
    [contract_id |-> Required("str"),
     name |-> Required("str"),
     total_events |-> Required("int"),
     unique_event_types |-> Required("int"),
     latest_ledger |-> Default("int?", JNull),
     last_activity |-> Default("datetime?", JNull)]

RecordEventResponse ==
    [status |-> Required("str"),
     tx_hash |-> Default("str?", JNull),
     transaction_status |-> Default("str?", JNull),
     error |-> Default("str?", JNull)]

\* The envelope fields of PaginatedResponse[T] other than results.
PaginatedResponse ==
    [count |-> Required("int"),
     next |-> Default("str?", JNull),
     previous |-> Default("str?", JNull)]

\* The ISO-8601 strings of the modelled bodies that parse as a datetime: the
\* fixtures' three, and the first of them written with a numeric offset.
IsoTimestamps ==
    {"2026-01-01T00:00:00Z", "2026-01-02T00:00:00Z", "2026-01-01T12:00:00Z",
     "2026-01-01T00:00:00+00:00"}

\* The instant an ISO-8601 string names, written the way pydantic writes a
\* UTC datetime (a zero offset is "Z").
Utc(iso) ==
    IF iso = "2026-01-01T00:00:00+00:00" THEN "2026-01-01T00:00:00Z" ELSE iso

\* A decoded datetime: the instant the string names.
DateTime(iso) == [t |-> "datetime", iso |-> Utc(iso)]

\* The strings of the modelled bodies that pydantic parses as an integer,
\* and the integer each gives.
IntStrings == {"1", "42"}
ParseInt(s) == CASE s = "1" -> 1 [] s = "42" -> 42

\* The strings pydantic takes as a boolean (compared in lower case).
TrueStrings == {"1", "on", "t", "true", "y", "yes"}
FalseStrings == {"0", "off", "f", "false", "n", "no"}

\* Whether pydantic accepts v for a field annotated `ty` and not Optional.
\* The models set no strict mode, so validation is lax: an int field takes a
\* bool or a numeric string, a bool field takes 0, 1 or a boolean word, a
\* datetime field takes a Unix timestamp; a str field takes only a str.
AcceptsLax(ty, v) ==
    CASE ty = "int" ->
            v.t \in {"int", "bool"} \/ (v.t = "str" /\ v.s \in IntStrings)
      [] ty = "str" -> v.t = "str"
      [] ty = "bool" ->
            \/ v.t = "bool"
            \/ v.t = "int" /\ v.n \in {0, 1}
            \/ v.t = "str" /\ v.s \in TrueStrings \cup FalseStrings
      [] ty = "dict" -> v.t = "obj"
      [] ty = "datetime" ->
            \/ v.t = "str" /\ v.s \in IsoTimestamps
            \/ v.t = "int"
            \/ v.t = "datetime"

\* Whether pydantic accepts JSON value v for a field of type ty: `X | None`
\* takes None or whatever X takes.
Accepts(ty, v) ==
    CASE ty = "int?" -> v.t = "null" \/ AcceptsLax("int", v)
      [] ty = "str?" -> v.t = "null" \/ AcceptsLax("str", v)
      [] ty = "dict?" -> v.t = "null" \/ AcceptsLax("dict", v)
      [] ty = "datetime?" -> v.t = "null" \/ AcceptsLax("datetime", v)
      [] OTHER -> AcceptsLax(ty, v)

\* The instant a Unix timestamp (in seconds) names.
Epoch(n) ==
    [t |-> "datetime",
     iso |-> IF n = 1767225600 THEN "2026-01-01T00:00:00Z"
             ELSE "epoch+" \o ToString(n)]

\* The typed value pydantic stores for an accepted v.
Convert(ty, v) ==
    IF v.t = "null" THEN v
    ELSE IF ty \in {"int", "int?"}
    THEN (IF v.t = "bool" THEN JInt(IF v.b THEN 1 ELSE 0)
          ELSE IF v.t = "str" THEN JInt(ParseInt(v.s))
          ELSE v)
    ELSE IF ty = "bool"
    THEN (IF v.t = "int" THEN JBool(v.n = 1)
          ELSE IF v.t = "str" THEN JBool(v.s \in TrueStrings)
          ELSE v)
    ELSE IF ty \in {"datetime", "datetime?"}
    THEN (IF v.t = "int" THEN Epoch(v.n)
          ELSE IF v.t = "str" THEN DateTime(v.s)
          ELSE v)
    ELSE v

\* FieldsValid with a missing required field let through.
MutFieldsValidNoRequired(schema, j) ==
    /\ j.t = "obj"
    /\ \A f \in DOMAIN schema :
          f \in DOMAIN j.o => Accepts(schema[f].ty, j.o[f])

\* Whether every field of the schema is present-and-accepted or defaulted.
FieldsValid(schema, j) ==
    /\ j.t = "obj"
    /\ \A f \in DOMAIN schema :
          IF f \in DOMAIN j.o
          THEN Accepts(schema[f].ty, j.o[f])
          ELSE ~schema[f].required

\* FieldValues with None, not the field's default, for a missing key.
MutFieldValuesNoDefault(schema, j) ==
    [f \in DOMAIN schema |->
        IF f \in DOMAIN j.o THEN Convert(schema[f].ty, j.o[f]) ELSE JNull]

\* The field values of the validated model.
FieldValues(schema, j) ==
    [f \in DOMAIN schema |->
        IF f \in DOMAIN j.o
        THEN Convert(schema[f].ty, j.o[f])
        ELSE schema[f].default]

Model(cls, fields) == [t |-> "model", cls |-> cls, f |-> fields]

\* cls.model_validate(data): the typed entity, or pydantic.ValidationError.
model_validate(cls, schema, j) ==
    IF FieldsValid(schema, j)
    THEN Return(Model(cls, FieldValues(schema, j)))
    ELSE Raise("ValidationError")

\* validate_paginated with the elements that fail their schema left out of
\* the page.
MutValidatePaginatedSkipsInvalid(cls, schema, j) ==
    IF /\ FieldsValid(PaginatedResponse, j)
       /\ "results" \in DOMAIN j.o
       /\ j.o["results"].t = "arr"
    THEN Return(Model("PaginatedResponse",
                      FieldValues(PaginatedResponse, j) @@
                      [results |->
                          JArr(SelectSeq(
                              [i \in DOMAIN j.o["results"].a |->
                                  IF FieldsValid(schema, j.o["results"].a[i])
                                  THEN Model(cls, FieldValues(schema,
                                                 j.o["results"].a[i]))
                                  ELSE JNull],
                              LAMBDA e : e # JNull))]))
    ELSE Raise("ValidationError")

\* TypeAdapter(PaginatedResponse[cls]).validate_python(data): the envelope
\* with results validated element by element.
validate_paginated(cls, schema, j) ==
    IF /\ FieldsValid(PaginatedResponse, j)
       /\ "results" \in DOMAIN j.o
       /\ j.o["results"].t = "arr"
       /\ \A i \in DOMAIN j.o["results"].a :
             FieldsValid(schema, j.o["results"].a[i])
    THEN Return(Model("PaginatedResponse",
                      FieldValues(PaginatedResponse, j) @@
                      [results |->
                          JArr([i \in DOMAIN j.o["results"].a |->
                                  Model(cls, FieldValues(schema,
                                                 j.o["results"].a[i]))])]))
    ELSE Raise("ValidationError")

----------------------------------------------------------------------------
(* Bodies of success responses, from the test fixtures.                     *)

\* conftest sample_contract_data
ContractFullBody ==
    Body("{\"id\":1,\"contract_id\":\"CCAAA111222333444555666777888999"
         \o "AAABBBCCCDDDEEEFFF\",\"name\":\"Test Token\",\"description\""
         \o ":\"A test token contract\",\"abi_schema\":null,\"is_active\""
         \o ":true,\"last_indexed_ledger\":100000,\"event_count\":42,\"cr"
         \o "eated_at\":\"2026-01-01T00:00:00Z\",\"updated_at\":\"2026-01"
         \o "-02T00:00:00Z\"}",
         JObj([id |-> JInt(1),
         contract_id |-> JStr("CCAAA111222333444555666777888999AAABBBCCCDDDEEEFFF"),
         name |-> JStr("Test Token"),
         description |-> JStr("A test token contract"), abi_schema |-> JNull,
         is_active |-> JBool(TRUE), last_indexed_ledger |-> JInt(100000),
         event_count |-> JInt(42),
         created_at |-> JStr("2026-01-01T00:00:00Z"),
         updated_at |-> JStr("2026-01-02T00:00:00Z")]))

\* test_model_default_values: only the required fields
ContractMinimalBody ==
    Body("{\"id\":1,\"contract_id\":\"CCAAA111222333444555666777888999"
         \o "AAABBBCCCDDDEEEFFF\",\"name\":\"Test\",\"created_at\":\"2026"
         \o "-01-01T00:00:00Z\",\"updated_at\":\"2026-01-01T00:00:00Z\"}",
         JObj([id |-> JInt(1),
         contract_id |-> JStr("CCAAA111222333444555666777888999AAABBBCCCDDDEEEFFF"),
         name |-> JStr("Test"), created_at |-> JStr("2026-01-01T00:00:00Z"),
         updated_at |-> JStr("2026-01-01T00:00:00Z")]))

\* test_model_required_fields: required fields missing
ContractOnlyIdBody ==
    Body("{\"id\":1}",
         JObj([id |-> JInt(1)]))

\* test_model_validation_error: id of the wrong type
ContractBadIdBody ==
    Body("{\"id\":\"not_an_int\",\"contract_id\":\"CCAAA...\",\"name\""
         \o ":\"Test\"}",
         JObj([id |-> JStr("not_an_int"), contract_id |-> JStr("CCAAA..."),
         name |-> JStr("Test")]))

\* a timestamp that is no ISO-8601 string
ContractBadDateBody ==
    Body("{\"id\":1,\"contract_id\":\"CCAAA111222333444555666777888999"
         \o "AAABBBCCCDDDEEEFFF\",\"name\":\"Test\",\"created_at\":\"yest"
         \o "erday\",\"updated_at\":\"2026-01-01T00:00:00Z\"}",
         JObj([id |-> JInt(1),
         contract_id |-> JStr("CCAAA111222333444555666777888999AAABBBCCCDDDEEEFFF"),
         name |-> JStr("Test"), created_at |-> JStr("yesterday"),
         updated_at |-> JStr("2026-01-01T00:00:00Z")]))

\* conftest sample_event_data
EventFullBody ==
    Body("{\"id\":1,\"contract_id\":\"CCAAA111222333444555666777888999"
         \o "AAABBBCCCDDDEEEFFF\",\"contract_name\":\"Test Token\",\"even"
         \o "t_type\":\"transfer\",\"payload\":{\"from\":\"GAAA...\",\"to"
         \o "\":\"GBBB...\",\"amount\":\"1000\"},\"payload_hash\":\"abc12"
         \o "3def456\",\"ledger\":100000,\"event_index\":0,\"timestamp\":"
         \o "\"2026-01-01T12:00:00Z\",\"tx_hash\":\"tx123456\",\"schema_v"
         \o "ersion\":1,\"validation_status\":\"passed\"}",
         JObj([id |-> JInt(1),
         contract_id |-> JStr("CCAAA111222333444555666777888999AAABBBCCCDDDEEEFFF"),
         contract_name |-> JStr("Test Token"),
         event_type |-> JStr("transfer"),
         payload |-> JObj([from |-> JStr("GAAA..."), to |-> JStr("GBBB..."),
         amount |-> JStr("1000")]), payload_hash |-> JStr("abc123def456"),
         ledger |-> JInt(100000), event_index |-> JInt(0),
         timestamp |-> JStr("2026-01-01T12:00:00Z"),
         tx_hash |-> JStr("tx123456"), schema_version |-> JInt(1),
         validation_status |-> JStr("passed")]))

\* conftest sample_webhook_data
WebhookFullBody ==
    Body("{\"id\":1,\"contract\":1,\"contract_id\":\"CCAAA111222333444"
         \o "555666777888999AAABBBCCCDDDEEEFFF\",\"event_type\":\"transfe"
         \o "r\",\"target_url\":\"https://example.com/webhook\",\"is_acti"
         \o "ve\":true,\"created_at\":\"2026-01-01T00:00:00Z\",\"last_tri"
         \o "ggered\":null,\"failure_count\":0}",
         JObj([id |-> JInt(1), contract |-> JInt(1),
         contract_id |-> JStr("CCAAA111222333444555666777888999AAABBBCCCDDDEEEFFF"),
         event_type |-> JStr("transfer"),
         target_url |-> JStr("https://example.com/webhook"),
         is_active |-> JBool(TRUE),
         created_at |-> JStr("2026-01-01T00:00:00Z"),
         last_triggered |-> JNull, failure_count |-> JInt(0)]))

\* test_contract_stats_model
StatsFullBody ==
    Body("{\"contract_id\":\"CCAAA111222333444555666777888999AAABBBCCC"
         \o "DDDEEEFFF\",\"name\":\"Test Token\",\"total_events\":100,\"u"
         \o "nique_event_types\":5,\"latest_ledger\":100000,\"last_activi"
         \o "ty\":\"2026-01-01T12:00:00Z\"}",
         JObj([contract_id |-> JStr("CCAAA111222333444555666777888999AAABBBCCCDDDEEEFFF"),
         name |-> JStr("Test Token"), total_events |-> JInt(100),
         unique_event_types |-> JInt(5), latest_ledger |-> JInt(100000),
         last_activity |-> JStr("2026-01-01T12:00:00Z")]))

\* test_record_event
RecordEventResponseBody ==
    Body("{\"status\":\"submitted\",\"tx_hash\":\"tx123456\",\"transac"
         \o "tion_status\":\"pending\",\"error\":null}",
         JObj([status |-> JStr("submitted"), tx_hash |-> JStr("tx123456"),
         transaction_status |-> JStr("pending"), error |-> JNull]))

\* test_test_webhook
TestWebhookBody ==
    Body("{\"status\":\"test_webhook_queued\"}",
         JObj([status |-> JStr("test_webhook_queued")]))


\* The largest number of elements in the results of a modelled page.
MaxResults == 1

\* The elements a page's results may hold.
ElementBodies ==
    {ContractFullBody, ContractOnlyIdBody, EventFullBody, WebhookFullBody}

RECURSIVE JoinTexts(_)
\* The texts of a sequence of bodies, separated by commas.
JoinTexts(elems) ==
    IF elems = <<>> THEN ""
    ELSE IF Len(elems) = 1 THEN elems[1].text
    ELSE elems[1].text \o "," \o JoinTexts(Tail(elems))

\* conftest sample_paginated_response with the given results.
PageBody(elems) ==
    Body("{\"count\":100,\"next\":\"https://api.test.soroscan.io/api/events"
         \o "/?page=2\",\"previous\":null,\"results\":["
         \o JoinTexts(elems) \o "]}",
         JObj([count |-> JInt(100),
               next |-> JStr("https://api.test.soroscan.io/api/events/?page=2"),
               previous |-> JNull,
               results |-> JArr([i \in DOMAIN elems |-> elems[i].json])]))

PageBodies ==
    {PageBody(elems) :
        elems \in UNION {[1..n -> ElementBodies] : n \in 0..MaxResults}}

EntityBodies ==
    {ContractFullBody, ContractMinimalBody, ContractOnlyIdBody,
     ContractBadIdBody, ContractBadDateBody, EventFullBody, WebhookFullBody,
     StatsFullBody, RecordEventResponseBody, TestWebhookBody}

Bodies ==
    UnparseableBodies \cup NonObjectBodies \cup ErrorObjectBodies
        \cup EntityBodies \cup PageBodies

\* The status codes a modelled response carries.
StatusCodes == {200, 201, 202, 203, 204, 301, 400, 401, 403, 404, 429, 500}

Responses == [status_code : StatusCodes, body : Bodies]

\* Exceptions httpx raises instead of returning a response.
TransportErrors ==
    {"httpx.ConnectError", "httpx.ReadTimeout", "httpx.ConnectTimeout"}

Responded(r) == [tag |-> "response", response |-> r]
Failed(exc) == [tag |-> "error", exc |-> exc]

TransportResults ==
    {Responded(r) : r \in Responses} \cup {Failed(e) : e \in TransportErrors}

\* httpx refuses to send on a closed client:
\* RuntimeError("Cannot send a request, as the client has been closed.")
ClosedResults == {Failed("RuntimeError")}

NoRequest == [method |-> "none"]
NoPager == [pc |-> "none"]
NoDecoding == [cls |-> "none"]
NoServer == [t |-> "none"]
NoResponse == [tag |-> "none"]
NoOutcome == [tag |-> "none"]

----------------------------------------------------------------------------
(* Request building.                                                        *)

\* An argument the caller left out of the call.
Unset == [t |-> "unset"]

\* The value of a parameter with a default in the signature.
Arg(a, default) == IF a = Unset THEN default ELSE a

Absent == [t |-> "absent"]

\* Text is held as the sequence of its pieces: a URL is its scheme and
\* host, then the "/" characters and the segments of its path.
RECURSIVE Spelled(_)
\* The string the pieces spell.
Spelled(pieces) ==
    IF pieces = <<>> THEN "" ELSE Head(pieces) \o Spelled(Tail(pieces))

RECURSIVE rstrip(_, _)
\* str.rstrip(chars): the text without its trailing run of the character.
rstrip(pieces, char) ==
    IF pieces # <<>> /\ pieces[Len(pieces)] = char
    THEN rstrip(SubSeq(pieces, 1, Len(pieces) - 1), char)
    ELSE pieces

\* urllib.parse.urljoin(base, url) for a url that starts with "/", as every
\* call site's does (client.py 124-452, 552-880): an absolute path replaces
\* the path of the base, so the result is the base's scheme and host
\* followed by url.
urljoin(base, path) == Head(base) \o path

\* The arguments of self._client.<verb>(url, headers=..., params=...,
\* json=...); path is the literal the method joins to self.base_url.
Request(method, path, headers, params, json) ==
    [method |-> method, url |-> urljoin(client.base_url, path),
     path |-> path, headers |-> headers,
     params |-> params, json |-> json]

\* get_headers with `if self.api_key is not None:` as the test.
MutGetHeadersIsNotNone(c) ==
    JObj(("Content-Type" :> JStr("application/json")) @@
         SetIf(c.api_key # JNull, "Authorization",
               JStr("Bearer " \o c.api_key.s)))

\* _get_headers (client.py 66-71, 495-500)
get_headers(c) ==
    JObj(("Content-Type" :> JStr("application/json")) @@
         SetIf(Truthy(c.api_key), "Authorization",
               JStr("Bearer " \o c.api_key.s)))

\* get_contracts_params with the default page size sent whatever the caller
\* asked for.
MutGetContractsParamsDefaultSize(is_active, search, page, page_size) ==
    JObj(("page" :> Arg(page, JInt(1))) @@
         ("page_size" :> JInt(50)) @@
         SetIf(is_active # JNull, "is_active", is_active) @@
         SetIf(Truthy(search), "search", search))

\* get_contracts, lines 118-122
get_contracts_params(is_active, search, page, page_size) ==
    JObj(("page" :> Arg(page, JInt(1))) @@
         ("page_size" :> Arg(page_size, JInt(50))) @@
         SetIf(is_active # JNull, "is_active", is_active) @@
         SetIf(Truthy(search), "search", search))

\* create_contract_payload with `if abi_schema is not None:` as the test.
MutCreateContractPayloadIsNotNone(contract_id, name, description, abi_schema) ==
    JObj(("contract_id" :> contract_id) @@
         ("name" :> name) @@
         ("description" :> Arg(description, JStr(""))) @@
         SetIf(abi_schema # JNull, "abi_schema", abi_schema))

\* create_contract, lines 166-172
create_contract_payload(contract_id, name, description, abi_schema) ==
    JObj(("contract_id" :> contract_id) @@
         ("name" :> name) @@
         ("description" :> Arg(description, JStr(""))) @@
         SetIf(Truthy(abi_schema), "abi_schema", abi_schema))

\* update_contract, lines 198-204
update_contract_payload(name, description, is_active) ==
    JObj(SetIf(name # JNull, "name", name) @@
         SetIf(description # JNull, "description", description) @@
         SetIf(is_active # JNull, "is_active", is_active))

\* get_events_params with the two ledger bounds under each other's name.
MutGetEventsParamsSwappedBounds(contract_id, event_type, ledger, ledger_min, ledger_max, validation_status, ordering, page, page_size) ==
    JObj(("page" :> Arg(page, JInt(1))) @@
         ("page_size" :> Arg(page_size, JInt(50))) @@
         ("ordering" :> Arg(ordering, JStr("-timestamp"))) @@
         SetIf(Truthy(contract_id), "contract__contract_id", contract_id) @@
         SetIf(Truthy(event_type), "event_type", event_type) @@
         SetIf(ledger # JNull, "ledger", ledger) @@
         SetIf(ledger_min # JNull, "ledger__lte", ledger_min) @@
         SetIf(ledger_max # JNull, "ledger__gte", ledger_max) @@
         SetIf(Truthy(validation_status), "validation_status",
               validation_status))

\* get_events, lines 266-282
get_events_params(contract_id, event_type, ledger, ledger_min, ledger_max, validation_status, ordering, page, page_size) ==
    JObj(("page" :> Arg(page, JInt(1))) @@
         ("page_size" :> Arg(page_size, JInt(50))) @@
         ("ordering" :> Arg(ordering, JStr("-timestamp"))) @@
         SetIf(Truthy(contract_id), "contract__contract_id", contract_id) @@
         SetIf(Truthy(event_type), "event_type", event_type) @@
         SetIf(ledger # JNull, "ledger", ledger) @@
         SetIf(ledger_min # JNull, "ledger__gte", ledger_min) @@
         SetIf(ledger_max # JNull, "ledger__lte", ledger_max) @@
         SetIf(Truthy(validation_status), "validation_status",
               validation_status))

\* RecordEventRequest (models.py 77-82): the max_length of each field.
MaxContractIdLen == 56
MaxEventTypeLen == 100
MaxPayloadHashLen == 64

\* RecordEventRequest with each ceiling one character too low.
MutRecordEventRequestStrict(contract_id, event_type, payload_hash) ==
    IF /\ contract_id.t = "str" /\ Len(contract_id.s) < MaxContractIdLen
       /\ event_type.t = "str" /\ Len(event_type.s) < MaxEventTypeLen
       /\ payload_hash.t = "str" /\ Len(payload_hash.s) < MaxPayloadHashLen
    THEN Return(Model("RecordEventRequest",
                      [contract_id |-> contract_id,
                       event_type |-> event_type,
                       payload_hash |-> payload_hash]))
    ELSE Raise("ValidationError")

\* RecordEventRequest(...): the request model, or pydantic.ValidationError.
RecordEventRequest(contract_id, event_type, payload_hash) ==
    IF /\ contract_id.t = "str" /\ Len(contract_id.s) <= MaxContractIdLen
       /\ event_type.t = "str" /\ Len(event_type.s) <= MaxEventTypeLen
       /\ payload_hash.t = "str" /\ Len(payload_hash.s) <= MaxPayloadHashLen
    THEN Return(Model("RecordEventRequest",
                      [contract_id |-> contract_id,
                       event_type |-> event_type,
                       payload_hash |-> payload_hash]))
    ELSE Raise("ValidationError")

\* request.model_dump()
model_dump(m) == JObj(m.f)

\* model_dump_mode_json with the fields that are None left out (exclude_none=True).
MutModelDumpModeJsonExcludeNone(m) ==
    JObj([f \in {g \in DOMAIN m.f : m.f[g] # JNull} |->
             IF m.f[f].t = "datetime" THEN JStr(m.f[f].iso) ELSE m.f[f]])

\* entity.model_dump(mode="json"): every field, a datetime as the ISO-8601
\* string pydantic writes for it.
model_dump_mode_json(m) ==
    JObj([f \in DOMAIN m.f |->
             IF m.f[f].t = "datetime" THEN JStr(m.f[f].iso) ELSE m.f[f]])

\* get_webhooks_params with the paging keys added only when true in Python
\* and given.
MutGetWebhooksParamsOptional(page, page_size) ==
    JObj(SetIf(page # Unset /\ Truthy(page), "page", page) @@
         SetIf(page_size # Unset, "page_size", page_size))

\* get_webhooks, line 348
get_webhooks_params(page, page_size) ==
    JObj(("page" :> Arg(page, JInt(1))) @@
         ("page_size" :> Arg(page_size, JInt(50))))

\* create_webhook, lines 389-393
create_webhook_payload(contract_id, target_url, event_type) ==
    JObj(("contract" :> contract_id) @@
         ("target_url" :> target_url) @@
         ("event_type" :> Arg(event_type, JStr(""))))

\* update_webhook_payload with the `is not None` tests written as `if x:`.
MutUpdateWebhookPayloadTruthy(target_url, event_type, is_active) ==
    JObj(SetIf(Truthy(target_url), "target_url", target_url) @@
         SetIf(Truthy(event_type), "event_type", event_type) @@
         SetIf(Truthy(is_active), "is_active", is_active))

\* update_webhook, lines 418-424
update_webhook_payload(target_url, event_type, is_active) ==
    JObj(SetIf(target_url # JNull, "target_url", target_url) @@
         SetIf(event_type # JNull, "event_type", event_type) @@
         SetIf(is_active # JNull, "is_active", is_active))

\* Str with every identifier rendered as "1".
MutStrFixed(v) == "1"

\* str(x) as an f-string renders a path argument.
Str(v) == IF v.t = "int" THEN ToString(v.n) ELSE v.s

----------------------------------------------------------------------------
(* What a facade method gives its caller, from what the transport gave it.  *)

\* response = self._client.<method>(...); data = self._handle_response(response)
\* A transport exception propagates: no method catches anything.
Received(t) ==
    IF t.tag = "error" THEN Raise(t.exc) ELSE handle_response(t.response)

\* return cls.model_validate(data)
Entity(t, cls, schema) ==
    LET data == Received(t)
    IN  IF data.tag = "raise" THEN data
        ELSE model_validate(cls, schema, data.value)

\* adapter = TypeAdapter(PaginatedResponse[cls]); adapter.validate_python(data)
Page(t, cls, schema) ==
    LET data == Received(t)
    IN  IF data.tag = "raise" THEN data
        ELSE validate_paginated(cls, schema, data.value)

\* test_webhook: return self._handle_response(response)
Raw(t) == Received(t)

\* delete_contract / delete_webhook:
\*   if response.status_code != 204: self._handle_response(response)
Deleted(t) ==
    IF t.tag = "error" THEN Raise(t.exc)
    ELSE IF t.response.status_code # 204
         THEN LET data == handle_response(t.response)
              IN  IF data.tag = "raise" THEN data ELSE Return(JNull)
         ELSE Return(JNull)

\* Calls of response.json(): one inside _handle_response, whenever it runs.
JsonCalls(t, handled) == IF t.tag = "response" /\ handled THEN 1 ELSE 0

\* TransportCalls with a second attempt after a 429, a 5xx or a transport
\* exception.
MutTransportCallsRetry(req, t) ==
    IF req = NoRequest THEN 0
    ELSE IF t.tag = "error" THEN 2
    ELSE IF t.response.status_code = 429 \/ t.response.status_code >= 500
         THEN 2
    ELSE 1

\* Invocations of self._client.<verb>(...) in one facade call: each method
\* body holds one such statement, in no loop and under no except clause, and
\* record_event does not reach it when RecordEventRequest(...) raised.
TransportCalls(req, t) == IF req = NoRequest THEN 0 ELSE 1

----------------------------------------------------------------------------
(* AsyncSoroScanClient (client.py 457-884), method by method: what each     *)
(* coroutine hands to the transport and what it gives its caller.           *)

\* AsyncSoroScanClient._get_headers (495-500)
async_get_headers(c) ==
    JObj(("Content-Type" :> JStr("application/json")) @@
         (IF Truthy(c.api_key)
          THEN "Authorization" :> JStr("Bearer " \o c.api_key.s)
          ELSE <<>>))

\* AsyncSoroScanClient._handle_response (502-525)
async_handle_response(r) ==
    IF r.status_code = 200 \/ r.status_code = 201 THEN response_json(r)
    ELSE IF r.status_code = 202 THEN response_json(r)
    ELSE LET parsed == response_json(r)
             error_data == IF parsed.tag = "raise" THEN EmptyDict
                           ELSE parsed.value
         IN  IF error_data.t # "obj" THEN Raise("AttributeError")
             ELSE LET error_message ==
                          PyOr(DictGet(error_data, "detail"),
                               PyOr(DictGet(error_data, "error"),
                                    response_text(r)))
                      s == r.status_code
                  IN  IF s = 400
                      THEN SoroScanAPIError("SoroScanValidationError",
                                            error_message, s, error_data)
                      ELSE IF s = 401 \/ s = 403
                      THEN SoroScanAPIError("SoroScanAuthError",
                                            error_message, s, error_data)
                      ELSE IF s = 404
                      THEN SoroScanAPIError("SoroScanNotFoundError",
                                            error_message, s, error_data)
                      ELSE IF s = 429
                      THEN SoroScanAPIError("SoroScanRateLimitError",
                                            error_message, s, error_data)
                      ELSE SoroScanAPIError("SoroScanAPIError",
                                            error_message, s, error_data)

\* The request of the coroutine o called with arguments a on client c
\* (NoRequest when record_event's RecordEventRequest(...) raised).
AsyncRequest(o, a, c) ==
    LET h == async_get_headers(c)
    IN  CASE o = "get_contracts" ->
               Request("GET", "/api/contracts/", h,
                       JObj(("page" :> Arg(a.page, JInt(1))) @@
                            ("page_size" :> Arg(a.page_size, JInt(50))) @@
                            (IF a.is_active # JNull
                             THEN "is_active" :> a.is_active ELSE <<>>) @@
                            (IF Truthy(a.search)
                             THEN "search" :> a.search ELSE <<>>)),
                       Absent)
          [] o = "get_contract" ->
               Request("GET", "/api/contracts/" \o Str(a.contract_id) \o "/",
                       h, Absent, Absent)
          [] o = "create_contract" ->
               Request("POST", "/api/contracts/", h, Absent,
                       JObj(("contract_id" :> a.contract_id) @@
                            ("name" :> a.name) @@
                            ("description" :> Arg(a.description, JStr(""))) @@
                            (IF Truthy(a.abi_schema)
                             THEN "abi_schema" :> a.abi_schema ELSE <<>>)))
          [] o = "update_contract" ->
               Request("PATCH", "/api/contracts/" \o Str(a.contract_id) \o "/",
                       h, Absent,
                       JObj((IF a.name # JNull
                             THEN "name" :> a.name ELSE <<>>) @@
                            (IF a.description # JNull
                             THEN "description" :> a.description ELSE <<>>) @@
                            (IF a.is_active # JNull
                             THEN "is_active" :> a.is_active ELSE <<>>)))
          [] o = "delete_contract" ->
               Request("DELETE",
                       "/api/contracts/" \o Str(a.contract_id) \o "/",
                       h, Absent, Absent)
          [] o = "get_contract_stats" ->
               Request("GET",
                       "/api/contracts/" \o Str(a.contract_id) \o "/stats/",
                       h, Absent, Absent)
          [] o = "get_events" ->
               Request("GET", "/api/events/", h,
                       JObj(("page" :> Arg(a.page, JInt(1))) @@
                            ("page_size" :> Arg(a.page_size, JInt(50))) @@
                            ("ordering" :>
                                Arg(a.ordering, JStr("-timestamp"))) @@
                            (IF Truthy(a.contract_id)
                             THEN "contract__contract_id" :> a.contract_id
                             ELSE <<>>) @@
                            (IF Truthy(a.event_type)
                             THEN "event_type" :> a.event_type ELSE <<>>) @@
                            (IF a.ledger # JNull
                             THEN "ledger" :> a.ledger ELSE <<>>) @@
                            (IF a.ledger_min # JNull
                             THEN "ledger__gte" :> a.ledger_min ELSE <<>>) @@
                            (IF a.ledger_max # JNull
                             THEN "ledger__lte" :> a.ledger_max ELSE <<>>) @@
                            (IF Truthy(a.validation_status)
                             THEN "validation_status" :> a.validation_status
                             ELSE <<>>)),
                       Absent)
          [] o = "get_event" ->
               Request("GET", "/api/events/" \o Str(a.event_id) \o "/",
                       h, Absent, Absent)
          [] o = "record_event" ->
               LET req == RecordEventRequest(a.contract_id, a.event_type,
                                             a.payload_hash)
               IN  IF req.tag = "raise" THEN NoRequest
                   ELSE Request("POST", "/api/record-event/", h, Absent,
                                model_dump(req.value))
          [] o = "get_webhooks" ->
               Request("GET", "/api/webhooks/", h,
                       JObj(("page" :> Arg(a.page, JInt(1))) @@
                            ("page_size" :> Arg(a.page_size, JInt(50)))),
                       Absent)
          [] o = "get_webhook" ->
               Request("GET", "/api/webhooks/" \o Str(a.webhook_id) \o "/",
                       h, Absent, Absent)
          [] o = "create_webhook" ->
               Request("POST", "/api/webhooks/", h, Absent,
                       JObj(("contract" :> a.contract_id) @@
                            ("target_url" :> a.target_url) @@
                            ("event_type" :> Arg(a.event_type, JStr("")))))
          [] o = "update_webhook" ->
               Request("PATCH", "/api/webhooks/" \o Str(a.webhook_id) \o "/",
                       h, Absent,
                       JObj((IF a.target_url # JNull
                             THEN "target_url" :> a.target_url ELSE <<>>) @@
                            (IF a.event_type # JNull
                             THEN "event_type" :> a.event_type ELSE <<>>) @@
                            (IF a.is_active # JNull
                             THEN "is_active" :> a.is_active ELSE <<>>)))
          [] o = "delete_webhook" ->
               Request("DELETE", "/api/webhooks/" \o Str(a.webhook_id) \o "/",
                       h, Absent, Absent)
          [] o = "test_webhook" ->
               Request("POST",
                       "/api/webhooks/" \o Str(a.webhook_id) \o "/test/",
                       h, Absent, Absent)

\* data = self._handle_response(await self._client.<verb>(...))
AsyncReceived(t) ==
    IF t.tag = "error" THEN Raise(t.exc) ELSE async_handle_response(t.response)

\* What the coroutine o gives its caller when the transport gave it t
\* (NoResponse: record_event never got to the transport).
AsyncOutcome(o, a, t) ==
    LET data == AsyncReceived(t)
        entity(cls, schema) ==
            IF data.tag = "raise" THEN data
            ELSE model_validate(cls, schema, data.value)
        page(cls, schema) ==
            IF data.tag = "raise" THEN data
            ELSE validate_paginated(cls, schema, data.value)
    IN  CASE o = "get_contracts" -> page("TrackedContract", TrackedContract)
          [] o \in {"get_contract", "create_contract", "update_contract"} ->
               entity("TrackedContract", TrackedContract)
          [] o \in {"delete_contract", "delete_webhook"} ->
               IF t.tag = "error" THEN Raise(t.exc)
               ELSE IF t.response.status_code # 204 /\ data.tag = "raise"
                    THEN data
               ELSE Return(JNull)
          [] o = "get_contract_stats" -> entity("ContractStats", ContractStats)
          [] o = "get_events" -> page("ContractEvent", ContractEvent)
          [] o = "get_event" -> entity("ContractEvent", ContractEvent)
          [] o = "record_event" ->
               IF t = NoResponse
               THEN RecordEventRequest(a.contract_id, a.event_type,
                                       a.payload_hash)
               ELSE entity("RecordEventResponse", RecordEventResponse)
          [] o = "get_webhooks" ->
               page("WebhookSubscription", WebhookSubscription)
          [] o \in {"get_webhook", "create_webhook", "update_webhook"} ->
               entity("WebhookSubscription", WebhookSubscription)
          [] o = "test_webhook" -> data

----------------------------------------------------------------------------
(* Arguments the modelled callers pass.                                     *)

ContractAddress == JStr("CCAAA111222333444555666777888999AAABBBCCCDDDEEEFFF")

\* api_key: left at None, the empty string, or the test's key.
ApiKeys == {JNull, JStr(""), JStr("test-api-key-12345")}
ContractRefs == {JStr("1"), JStr("999")}
OptBools == {JNull, JBool(FALSE), JBool(TRUE)}
OptNames == {JNull, JStr(""), JStr("Updated Token")}
OptSearches == {JNull, JStr(""), JStr("token")}
OptAddresses == {JNull, JStr(""), ContractAddress}
OptEventTypes == {JNull, JStr(""), JStr("transfer")}
\* ledger, ledger_min and ledger_max: none given, each given alone (as 0),
\* and the two bounds given together.
LedgerFilters ==
    {[ledger |-> JNull, ledger_min |-> JNull, ledger_max |-> JNull],
     [ledger |-> JInt(0), ledger_min |-> JNull, ledger_max |-> JNull],
     [ledger |-> JNull, ledger_min |-> JInt(0), ledger_max |-> JNull],
     [ledger |-> JNull, ledger_min |-> JNull, ledger_max |-> JInt(0)],
     [ledger |-> JNull, ledger_min |-> JInt(0), ledger_max |-> JInt(100000)]}
OptValidationStatuses == {JNull, JStr("failed")}
OptUrls == {JNull, JStr(""), JStr("https://example.com/webhook")}
OptSchemas == {JNull, EmptyDict, JObj([version |-> JInt(1)])}
Descriptions == {Unset, JStr("A test token contract")}
EventTypeArgs == {Unset, JStr("transfer")}

\* page, page_size and ordering: all left to their defaults, all given, or
\* only page given (as 0).
Paging ==
    {[page |-> Unset, page_size |-> Unset, ordering |-> Unset],
     [page |-> JInt(2), page_size |-> JInt(10), ordering |-> JStr("ledger")],
     [page |-> JInt(0), page_size |-> Unset, ordering |-> Unset]}

\* record_event arguments: the test's, and a contract_id one over its ceiling.
LongAddress ==
    JStr("CCAAA111222333444555666777888999AAABBBCCCDDDEEEFFF1234567")

\* A contract_id of exactly 56 characters.
Address56 == JStr(ContractAddress.s \o "123456")
RecordAddresses == {ContractAddress, Address56, LongAddress}

RECURSIVE Tens(_)
\* A string of 10 * n characters.
Tens(n) == IF n = 0 THEN "" ELSE "0123456789" \o Tens(n - 1)

\* event_type: the test's, one of exactly 100 characters, one of 101.
RecordEventTypes ==
    {JStr("transfer"), JStr(Tens(10)), JStr(Tens(10) \o "x")}

\* payload_hash: the test's, one of exactly 64 characters, one of 65.
RecordHashes ==
    {JStr("abc123def456"), JStr(Tens(6) \o "abcd"), JStr(Tens(6) \o "abcde")}

----------------------------------------------------------------------------
(* The transport resource and the scoped block (client.py 54-64, 483-493).  *)

\* httpx.Client(timeout=timeout): a new, open transport object.
HttpxClient == [is_closed |-> FALSE]

\* close(): self._client.close().  Closing a closed httpx client is a no-op.
Close(tr, c) == [tr EXCEPT ![c._client].is_closed = TRUE]

\* Exit that releases nothing when the block is left by an exception.
MutExitLeaksOnError(tr, c, exc) == IF exc # JNull THEN tr ELSE Close(tr, c)

\* __exit__(self, *args) / __aexit__: self.close(), whatever args holds.
Exit(tr, c, exc) == Close(tr, c)

Outside == [pos |-> "outside", exc |-> JNull]
Inside == [pos |-> "inside", exc |-> JNull]
Left(exc) == [pos |-> "left", exc |-> exc]

\* base_url as callers write it: the default, the tests' fixture, the
\* default with one and with two trailing slashes, and a deployment behind
\* a path prefix, without and with a trailing slash.
DefaultBaseUrl == <<"https://api.soroscan.io">>
BaseUrls ==
    {DefaultBaseUrl,
     <<"https://api.test.soroscan.io">>,
     <<"https://api.soroscan.io", "/">>,
     <<"https://api.soroscan.io", "/", "/">>,
     <<"https://host", "/", "v1">>,
     <<"https://host", "/", "v1", "/">>}

\* timeout: float = 30.0, and the 60.0 of test_client_initialization.
DefaultTimeout == 30
Timeouts == {DefaultTimeout, 60}

\* __init__ (client.py 37-54, 466-483): the fields of a new client, whose
\* transport is the object numbered 1.
SoroScanClient(base_url, api_key, timeout) ==
    [base_url |-> rstrip(base_url, "/"), api_key |-> api_key,
     timeout |-> timeout, _client |-> 1]

\* The clients of the default deployment.
DefaultClients ==
    {SoroScanClient(DefaultBaseUrl, k, DefaultTimeout) : k \in ApiKeys}

\* Under pytest_httpx (tests/test_client.py 61-64) the transport gives back
\* the response registered with httpx_mock.add_response(json=
\* sample_contract_data), or raises httpx.TimeoutException when none is
\* registered for the request.
HttpxMockResults ==
    {Responded([status_code |-> 200, body |-> ContractFullBody]),
     Failed("httpx.TimeoutException")}

\* What self._client.<verb>(...) may give back in the current state.
Performed ==
    IF transport[client._client].is_closed THEN ClosedResults
    ELSE IF server.t = "httpx_mock" THEN HttpxMockResults
    ELSE TransportResults

----------------------------------------------------------------------------
(* The state machine: a client is constructed, then its methods are called. *)

Init ==
    /\ client \in DefaultClients
    /\ transport = <<HttpxClient>>
    /\ scope = Outside
    /\ sent_via = 0
    /\ op = "none"
    /\ args = <<>>
    /\ request = NoRequest
    /\ response = NoResponse
    /\ outcome = NoOutcome
    /\ json_calls = 0
    /\ transport_calls = 0
    /\ tasks = <<>>
    /\ in_flight = {}
    /\ completed = <<>>
    /\ gathered = NoOutcome
    /\ pager = NoPager
    /\ decoding = NoDecoding
    /\ server = NoServer

\* No call is in progress on the client.
Idle == op = "none"

\* Called with the transport released when the call raises.
MutCalledReleasesOnError(o, a, req, t, out, handled) ==
    /\ op' = o
    /\ args' = a
    /\ request' = req
    /\ response' = t
    /\ outcome' = out
    /\ json_calls' = JsonCalls(t, handled)
    /\ transport_calls' = TransportCalls(req, t)
    /\ sent_via' = IF req = NoRequest THEN 0 ELSE client._client
    /\ transport' = IF out.tag = "raise" THEN Close(transport, client)
                    ELSE transport
    /\ UNCHANGED <<client, scope, workflows>>

\* One facade call: the request sent, the transport's answer, the outcome.
Called(o, a, req, t, out, handled) ==
    /\ op' = o
    /\ args' = a
    /\ request' = req
    /\ response' = t
    /\ outcome' = out
    /\ json_calls' = JsonCalls(t, handled)
    /\ transport_calls' = TransportCalls(req, t)
    /\ sent_via' = IF req = NoRequest THEN 0 ELSE client._client
    /\ UNCHANGED <<client, transport, scope, workflows>>

get_contracts ==
    /\ Idle
    /\ \E is_active \in OptBools, search \in OptSearches, pg \in Paging,
          t \in Performed :
           Called("get_contracts",
                  [is_active |-> is_active, search |-> search,
                   page |-> pg.page, page_size |-> pg.page_size],
                  Request("GET", "/api/contracts/", get_headers(client),
                          get_contracts_params(is_active, search,
                                               pg.page, pg.page_size),
                          Absent),
                  t, Page(t, "TrackedContract", TrackedContract), TRUE)

get_contract ==
    /\ Idle
    /\ \E contract_id \in ContractRefs, t \in Performed :
           Called("get_contract", [contract_id |-> contract_id],
                  Request("GET", "/api/contracts/" \o Str(contract_id) \o "/",
                          get_headers(client), Absent, Absent),
                  t, Entity(t, "TrackedContract", TrackedContract), TRUE)

create_contract ==
    /\ Idle
    /\ \E contract_id \in {ContractAddress, JStr("invalid")},
          description \in Descriptions, abi_schema \in OptSchemas,
          t \in Performed :
           Called("create_contract",
                  [contract_id |-> contract_id, name |-> JStr("Test Token"),
                   description |-> description, abi_schema |-> abi_schema],
                  Request("POST", "/api/contracts/", get_headers(client), Absent,
                          create_contract_payload(contract_id, JStr("Test Token"),
                                                  description, abi_schema)),
                  t, Entity(t, "TrackedContract", TrackedContract), TRUE)

update_contract ==
    /\ Idle
    /\ \E contract_id \in {JStr("1")}, name \in OptNames,
          description \in OptNames, is_active \in OptBools,
          t \in Performed :
           Called("update_contract",
                  [contract_id |-> contract_id, name |-> name,
                   description |-> description, is_active |-> is_active],
                  Request("PATCH", "/api/contracts/" \o Str(contract_id) \o "/",
                          get_headers(client), Absent,
                          update_contract_payload(name, description, is_active)),
                  t, Entity(t, "TrackedContract", TrackedContract), TRUE)

delete_contract ==
    /\ Idle
    /\ \E contract_id \in ContractRefs, t \in Performed :
           Called("delete_contract", [contract_id |-> contract_id],
                  Request("DELETE", "/api/contracts/" \o Str(contract_id) \o "/",
                          get_headers(client), Absent, Absent),
                  t, Deleted(t),
                  t.tag = "response" /\ t.response.status_code # 204)

get_contract_stats ==
    /\ Idle
    /\ \E contract_id \in {JStr("1")}, t \in Performed :
           Called("get_contract_stats", [contract_id |-> contract_id],
                  Request("GET",
                          "/api/contracts/" \o Str(contract_id) \o "/stats/",
                          get_headers(client), Absent, Absent),
                  t, Entity(t, "ContractStats", ContractStats), TRUE)

get_events ==
    /\ Idle
    /\ \E contract_id \in OptAddresses, event_type \in OptEventTypes,
          lf \in LedgerFilters,
          validation_status \in OptValidationStatuses, pg \in Paging,
          t \in Performed :
           Called("get_events",
                  [contract_id |-> contract_id, event_type |-> event_type,
                   ledger |-> lf.ledger, ledger_min |-> lf.ledger_min,
                   ledger_max |-> lf.ledger_max,
                   validation_status |-> validation_status,
                   ordering |-> pg.ordering, page |-> pg.page,
                   page_size |-> pg.page_size],
                  Request("GET", "/api/events/", get_headers(client),
                          get_events_params(contract_id, event_type,
                                            lf.ledger, lf.ledger_min,
                                            lf.ledger_max,
                                            validation_status, pg.ordering,
                                            pg.page, pg.page_size),
                          Absent),
                  t, Page(t, "ContractEvent", ContractEvent), TRUE)

get_event ==
    /\ Idle
    /\ \E event_id \in {JInt(1)}, t \in Performed :
           Called("get_event", [event_id |-> event_id],
                  Request("GET", "/api/events/" \o Str(event_id) \o "/",
                          get_headers(client), Absent, Absent),
                  t, Entity(t, "ContractEvent", ContractEvent), TRUE)

\* record_event builds the RecordEventRequest first: when that fails nothing
\* is sent.
record_event ==
    /\ Idle
    /\ \E contract_id \in RecordAddresses, event_type \in RecordEventTypes,
          payload_hash \in RecordHashes, t \in Performed :
           LET a == [contract_id |-> contract_id,
                     event_type |-> event_type,
                     payload_hash |-> payload_hash]
               req == RecordEventRequest(a.contract_id, a.event_type,
                                         a.payload_hash)
           IN  IF req.tag = "raise"
               THEN Called("record_event", a, NoRequest, NoResponse, req, FALSE)
               ELSE Called("record_event", a,
                           Request("POST", "/api/record-event/",
                                   get_headers(client), Absent,
                                   model_dump(req.value)),
                           t, Entity(t, "RecordEventResponse",
                                     RecordEventResponse), TRUE)

get_webhooks ==
    /\ Idle
    /\ \E pg \in Paging, t \in Performed :
           Called("get_webhooks", [page |-> pg.page, page_size |-> pg.page_size],
                  Request("GET", "/api/webhooks/", get_headers(client),
                          get_webhooks_params(pg.page, pg.page_size), Absent),
                  t, Page(t, "WebhookSubscription", WebhookSubscription), TRUE)

get_webhook ==
    /\ Idle
    /\ \E webhook_id \in {JInt(1)}, t \in Performed :
           Called("get_webhook", [webhook_id |-> webhook_id],
                  Request("GET", "/api/webhooks/" \o Str(webhook_id) \o "/",
                          get_headers(client), Absent, Absent),
                  t, Entity(t, "WebhookSubscription", WebhookSubscription), TRUE)

create_webhook ==
    /\ Idle
    /\ \E contract_id \in {JInt(1)}, event_type \in EventTypeArgs,
          t \in Performed :
           Called("create_webhook",
                  [contract_id |-> contract_id,
                   target_url |-> JStr("https://example.com/webhook"),
                   event_type |-> event_type],
                  Request("POST", "/api/webhooks/", get_headers(client), Absent,
                          create_webhook_payload(
                              contract_id, JStr("https://example.com/webhook"),
                              event_type)),
                  t, Entity(t, "WebhookSubscription", WebhookSubscription), TRUE)

update_webhook ==
    /\ Idle
    /\ \E webhook_id \in {JInt(1)}, target_url \in OptUrls,
          event_type \in OptEventTypes, is_active \in OptBools,
          t \in Performed :
           Called("update_webhook",
                  [webhook_id |-> webhook_id, target_url |-> target_url,
                   event_type |-> event_type, is_active |-> is_active],
                  Request("PATCH", "/api/webhooks/" \o Str(webhook_id) \o "/",
                          get_headers(client), Absent,
                          update_webhook_payload(target_url, event_type,
                                                 is_active)),
                  t, Entity(t, "WebhookSubscription", WebhookSubscription), TRUE)

delete_webhook ==
    /\ Idle
    /\ \E webhook_id \in {JInt(1)}, t \in Performed :
           Called("delete_webhook", [webhook_id |-> webhook_id],
                  Request("DELETE", "/api/webhooks/" \o Str(webhook_id) \o "/",
                          get_headers(client), Absent, Absent),
                  t, Deleted(t),
                  t.tag = "response" /\ t.response.status_code # 204)

test_webhook ==
    /\ Idle
    /\ \E webhook_id \in {JInt(1)}, t \in Performed :
           Called("test_webhook", [webhook_id |-> webhook_id],
                  Request("POST",
                          "/api/webhooks/" \o Str(webhook_id) \o "/test/",
                          get_headers(client), Absent, Absent),
                  t, Raw(t), TRUE)

\* The call has ended and its frame is gone: nothing of it stays in the
\* client, which is ready for the next call.
call_ends ==
    /\ op # "none"
    /\ op' = "none"
    /\ args' = <<>>
    /\ request' = NoRequest
    /\ response' = NoResponse
    /\ outcome' = NoOutcome
    /\ json_calls' = 0
    /\ transport_calls' = 0
    /\ sent_via' = 0
    /\ UNCHANGED <<client, transport, scope, workflows>>

\* The caller's frame variables, none of which the lifecycle methods touch.
frame == <<op, args, request, response, outcome, json_calls, transport_calls, sent_via>>

\* client.close() / await client.close()
close ==
    /\ Idle
    /\ transport' = Close(transport, client)
    /\ UNCHANGED <<client, scope, frame, workflows>>

\* `with client:` / `async with client:` is entered: __enter__ returns self.
enter ==
    /\ Idle
    /\ scope.pos # "inside"
    /\ scope' = Inside
    /\ UNCHANGED <<client, transport, frame, workflows>>

\* The exceptions by which the block may be left now: none (None), one
\* raised by the block's own code, or the one the last facade call raised.
ExitCauses ==
    {JNull, JStr("KeyboardInterrupt")} \cup
        (IF outcome.tag = "raise" THEN {JStr(outcome.exc)} ELSE {})

\* The block is left, normally or by an exception: __exit__ runs, returns
\* None, and the exception (if any) goes on to the caller of the block.
exit ==
    /\ scope.pos = "inside"
    /\ \E exc \in ExitCauses :
          /\ transport' = Exit(transport, client, exc)
          /\ scope' = Left(exc)
    /\ op' = "none"
    /\ args' = <<>>
    /\ request' = NoRequest
    /\ response' = NoResponse
    /\ outcome' = NoOutcome
    /\ json_calls' = 0
    /\ transport_calls' = 0
    /\ sent_via' = 0
    /\ UNCHANGED <<client, workflows>>

Next ==
    \/ close
    \/ enter
    \/ exit
    \/ call_ends
    \/ get_contracts
    \/ get_contract
    \/ create_contract
    \/ update_contract
    \/ delete_contract
    \/ get_contract_stats
    \/ get_events
    \/ get_event
    \/ record_event
    \/ get_webhooks
    \/ get_webhook
    \/ create_webhook
    \/ update_webhook
    \/ delete_webhook
    \/ test_webhook

Spec == Init /\ [][Next]_vars

----------------------------------------------------------------------------
(* Clients of other deployments: a client is constructed with the base_url  *)
(* its caller wrote, under the tests' mocked transport, and its methods are *)
(* called.                                                                  *)

InitUrl ==
    /\ \E base_url \in BaseUrls, timeout \in Timeouts :
          /\ client = SoroScanClient(base_url, JNull, timeout)
          /\ server = [t |-> "httpx_mock", base_url |-> base_url,
                       timeout |-> timeout]
    /\ transport = <<HttpxClient>>
    /\ scope = Outside
    /\ sent_via = 0
    /\ op = "none"
    /\ args = <<>>
    /\ request = NoRequest
    /\ response = NoResponse
    /\ outcome = NoOutcome
    /\ json_calls = 0
    /\ transport_calls = 0
    /\ tasks = <<>>
    /\ in_flight = {}
    /\ completed = <<>>
    /\ gathered = NoOutcome
    /\ pager = NoPager
    /\ decoding = NoDecoding

NextUrl ==
    \/ call_ends
    \/ get_contracts
    \/ get_contract
    \/ create_contract
    \/ update_contract
    \/ delete_contract
    \/ get_contract_stats
    \/ get_events
    \/ get_event
    \/ record_event
    \/ get_webhooks
    \/ get_webhook
    \/ create_webhook
    \/ update_webhook
    \/ delete_webhook
    \/ test_webhook

SpecUrl == InitUrl /\ [][NextUrl]_vars

----------------------------------------------------------------------------
(* Concurrent calls on one AsyncSoroScanClient, gathered                    *)
(* (tests/test_async_client.py 174-201, tests/test_integration.py 234-262). *)

\* The largest number of coroutines gathered.
MaxTasks == 3

\* sample_contract_data.copy() with id i and the name "Contract i".
ContractNBody(i) ==
    Body("{\"id\":" \o ToString(i) \o ",\"name\":\"Contract "
         \o ToString(i) \o "\"}",
         JObj([ContractFullBody.json.o EXCEPT
                  !["id"] = JInt(i),
                  !["name"] = JStr("Contract " \o ToString(i))]))

\* The mocked server: a 200 with contract i for GET /api/contracts/i/, for
\* each i registered; the mock raises a timeout for any other request.
Server(n, req) ==
    IF \E i \in 1..n :
          req.method = "GET" /\ req.path = "/api/contracts/" \o ToString(i) \o "/"
    THEN LET i == CHOOSE k \in 1..n :
                      req.path = "/api/contracts/" \o ToString(k) \o "/"
         IN  Responded([status_code |-> 200, body |-> ContractNBody(i)])
    ELSE Failed("httpx.TimeoutException")

\* client.get_contract(str(i)): a coroutine object, not started yet.
Coroutine(i) ==
    [pc |-> "created", contract_id |-> JStr(ToString(i)),
     response |-> NoResponse, outcome |-> NoOutcome]

\* Deliver with the response kept in one slot shared by the awaiting calls.
MutDeliverShared(ts, i, resp) ==
    [j \in DOMAIN ts |->
        IF ts[j].pc = "awaiting"
        THEN [ts[j] EXCEPT !.response = resp, !.pc = "ready"]
        ELSE ts[j]]

\* response = await self._client.get(...): the awaited call's result becomes
\* the local `response` of the coroutine that awaited it.
Deliver(ts, i, resp) == [ts EXCEPT ![i].response = resp, ![i].pc = "ready"]

\* asyncio.gather(*tasks): the results in the order of the awaitables, or
\* the exception of a task that raised.
Gather(ts) ==
    IF \A i \in DOMAIN ts : ts[i].outcome.tag = "return"
    THEN Return(JArr([i \in DOMAIN ts |-> ts[i].outcome.value]))
    ELSE ts[CHOOSE i \in DOMAIN ts : ts[i].outcome.tag = "raise"].outcome

InitGather ==
    /\ client \in DefaultClients
    /\ transport = <<HttpxClient>>
    /\ scope = Inside
    /\ op = "none"
    /\ args = <<>>
    /\ request = NoRequest
    /\ response = NoResponse
    /\ outcome = NoOutcome
    /\ json_calls = 0
    /\ transport_calls = 0
    /\ sent_via = 0
    /\ \E n \in 1..MaxTasks : tasks = [i \in 1..n |-> Coroutine(i)]
    /\ in_flight = {}
    /\ completed = <<>>
    /\ gathered = NoOutcome
    /\ pager = NoPager
    /\ decoding = NoDecoding
    /\ server = NoServer

\* A coroutine runs up to its await: the request is with the transport.
task_sends ==
    \E i \in DOMAIN tasks :
        /\ tasks[i].pc = "created"
        /\ in_flight' = in_flight \cup
              {[task |-> i,
                request |-> AsyncRequest("get_contract",
                               [contract_id |-> tasks[i].contract_id],
                               client)]}
        /\ tasks' = [tasks EXCEPT ![i].pc = "awaiting"]
        /\ UNCHANGED <<client, transport, scope, frame, completed, gathered,
                       pager, decoding, server>>

\* The response to one of the requests in flight arrives, in any order.
transport_completes ==
    \E r \in in_flight :
        /\ tasks' = Deliver(tasks, r.task, Server(Len(tasks), r.request))
        /\ in_flight' = in_flight \ {r}
        /\ completed' = Append(completed, r.task)
        /\ UNCHANGED <<client, transport, scope, frame, gathered, pager, decoding, server>>

\* A coroutine whose response arrived is resumed and runs to its return.
task_returns ==
    \E i \in DOMAIN tasks :
        /\ tasks[i].pc = "ready"
        /\ tasks' = [tasks EXCEPT
              ![i].outcome =
                  AsyncOutcome("get_contract",
                               [contract_id |-> tasks[i].contract_id],
                               tasks[i].response),
              ![i].pc = "done"]
        /\ UNCHANGED <<client, transport, scope, frame, in_flight, completed,
                       gathered, pager, decoding, server>>

\* Every coroutine is done: `await asyncio.gather(*tasks)` returns.
gather_returns ==
    /\ gathered = NoOutcome
    /\ \A i \in DOMAIN tasks : tasks[i].pc = "done"
    /\ gathered' = Gather(tasks)
    /\ UNCHANGED <<client, transport, scope, frame, tasks, in_flight,
                   completed, pager, decoding, server>>

NextGather ==
    \/ task_sends
    \/ transport_completes
    \/ task_returns
    \/ gather_returns

SpecGather == InitGather /\ [][NextGather]_vars

----------------------------------------------------------------------------
(* The caller loop over the pages of get_events                             *)
(* (tests/test_integration.py 91-146, examples/basic_usage.py 72-90).       *)

\* The largest number of pages the server holds, and of events per page.
MaxPages == 3
MaxPageSize == 2

\* sample_event_data with id n.
EventNBody(n) ==
    Body("{\"id\":" \o ToString(n) \o "}",
         JObj([EventFullBody.json.o EXCEPT !["id"] = JInt(n)]))

\* The link the server gives for page p.
PageUrl(p) ==
    JStr("https://api.test.soroscan.io/api/events/?page=" \o ToString(p))

\* Page p of n pages of `size` events each: the events in order, next and
\* previous chained, null at the two ends.
PageNBody(n, size, p) ==
    Body("{\"count\":" \o ToString(n * size) \o ",\"page\":" \o ToString(p)
         \o "}",
         JObj([count |-> JInt(n * size),
               next |-> IF p < n THEN PageUrl(p + 1) ELSE JNull,
               previous |-> IF p > 1 THEN PageUrl(p - 1) ELSE JNull,
               results |->
                   JArr([k \in 1..size |->
                            EventNBody((p - 1) * size + k).json])]))

\* The server: the page the request's `page` parameter names, or a 404.
PageServer(n, size, req) ==
    LET p == req.params.o["page"]
    IN  IF p.t = "int" /\ p.n \in 1..n
        THEN Responded([status_code |-> 200, body |-> PageNBody(n, size, p.n)])
        ELSE Responded([status_code |-> 404, body |-> DetailBody])

\* if not response.next: break / page += 1, with the increment left out.
MutLoopTailSamePage(pg) ==
    IF ~Truthy(pg.response.value.f.next)
    THEN [pg EXCEPT !.pc = "done"]
    ELSE [pg EXCEPT !.pc = "call"]

\* if not response.next: break
\* page += 1
LoopTail(pg) ==
    IF ~Truthy(pg.response.value.f.next)
    THEN [pg EXCEPT !.pc = "done"]
    ELSE [pg EXCEPT !.pc = "call", !.page = pg.page + 1]

\* all_events = []; page = 1, against a server of n pages of `size` events;
\* the example passes a contract_id, the test does not.
InitPaging ==
    /\ client \in DefaultClients
    /\ transport = <<HttpxClient>>
    /\ scope = Inside
    /\ op = "none"
    /\ args = <<>>
    /\ request = NoRequest
    /\ response = NoResponse
    /\ outcome = NoOutcome
    /\ json_calls = 0
    /\ transport_calls = 0
    /\ sent_via = 0
    /\ tasks = <<>>
    /\ in_flight = {}
    /\ completed = <<>>
    /\ gathered = NoOutcome
    /\ decoding = NoDecoding
    /\ server = NoServer
    /\ \E n \in 1..MaxPages, size \in 1..MaxPageSize,
          contract_id \in {JNull, ContractAddress} :
           pager = [pc |-> "call", pages |-> n, page_size |-> size,
                    contract_id |-> contract_id, page |-> 1,
                    all_events |-> <<>>, calls |-> 0,
                    response |-> NoOutcome]

\* response = client.get_events(page=page, page_size=...): the whole call.
pager_calls ==
    /\ pager.pc = "call"
    /\ LET req == Request("GET", "/api/events/", get_headers(client),
                          get_events_params(pager.contract_id, JNull, JNull,
                                            JNull, JNull, JNull, Unset,
                                            JInt(pager.page),
                                            JInt(pager.page_size)),
                          Absent)
           t == PageServer(pager.pages, pager.page_size, req)
           out == Page(t, "ContractEvent", ContractEvent)
       IN  pager' = [pager EXCEPT
                        !.calls = pager.calls + TransportCalls(req, t),
                        !.response = out,
                        !.pc = IF out.tag = "raise" THEN "raised"
                               ELSE "extend"]
    /\ UNCHANGED <<client, transport, scope, frame, tasks, in_flight,
                   completed, gathered, decoding, server>>

\* all_events.extend(response.results)
pager_extends ==
    /\ pager.pc = "extend"
    /\ pager' = [pager EXCEPT
                    !.all_events =
                        pager.all_events \o pager.response.value.f.results.a,
                    !.pc = "test"]
    /\ UNCHANGED <<client, transport, scope, frame, tasks, in_flight,
                   completed, gathered, decoding, server>>

\* The loop ends on a page without next, or goes on to the next page.
pager_tests_next ==
    /\ pager.pc = "test"
    /\ pager' = LoopTail(pager)
    /\ UNCHANGED <<client, transport, scope, frame, tasks, in_flight,
                   completed, gathered, decoding, server>>

NextPaging ==
    \/ pager_calls
    \/ pager_extends
    \/ pager_tests_next

SpecPaging == InitPaging /\ [][NextPaging]_vars

----------------------------------------------------------------------------
(* Decoding on its own: cls.model_validate(data) for each entity class and  *)
(* each parsed body (tests/test_models.py).                                 *)

\* test_model_default_values with the two optional fields as explicit nulls.
ContractNullsBody ==
    Body("{\"id\":1,\"abi_schema\":null,\"last_indexed_ledger\":null}",
         JObj(ContractMinimalBody.json.o @@
              [abi_schema |-> JNull, last_indexed_ledger |-> JNull]))

\* sample_event_data without the keys that have a default.
EventMinimalBody ==
    Body("{\"id\":1,\"event_type\":\"transfer\"}",
         JObj([k \in DOMAIN EventFullBody.json.o \
                        {"event_index", "schema_version", "validation_status"}
                  |-> EventFullBody.json.o[k]]))

\* sample_event_data with schema_version null.
EventNullVersionBody ==
    Body("{\"id\":1,\"schema_version\":null}",
         JObj([EventFullBody.json.o EXCEPT !["schema_version"] = JNull]))

\* sample_webhook_data without the keys that have a default.
WebhookMinimalBody ==
    Body("{\"id\":1,\"contract\":1}",
         JObj([k \in DOMAIN WebhookFullBody.json.o \
                        {"event_type", "is_active", "last_triggered",
                         "failure_count"}
                  |-> WebhookFullBody.json.o[k]]))

\* test_contract_stats_model without the two optional fields.
StatsMinimalBody ==
    Body("{\"total_events\":100,\"unique_event_types\":5}",
         JObj([k \in DOMAIN StatsFullBody.json.o \
                        {"latest_ledger", "last_activity"}
                  |-> StatsFullBody.json.o[k]]))

\* test_contract_stats_model with the two optional fields null.
StatsNullsBody ==
    Body("{\"latest_ledger\":null,\"last_activity\":null}",
         JObj([StatsFullBody.json.o EXCEPT
                  !["latest_ledger"] = JNull, !["last_activity"] = JNull]))

\* sample_contract_data with the id as the JSON string "1".
ContractStringIdBody ==
    Body("{\"id\":\"1\"}",
         JObj([ContractFullBody.json.o EXCEPT !["id"] = JStr("1")]))

\* sample_contract_data with the name as the JSON number 7.
ContractNumberNameBody ==
    Body("{\"id\":1,\"name\":7}",
         JObj([ContractFullBody.json.o EXCEPT !["name"] = JInt(7)]))

\* sample_webhook_data with is_active as the JSON string "yes" and
\* failure_count as the JSON boolean true.
WebhookWordsBody ==
    Body("{\"id\":1,\"is_active\":\"yes\",\"failure_count\":true}",
         JObj([WebhookFullBody.json.o EXCEPT
                  !["is_active"] = JStr("yes"),
                  !["failure_count"] = JBool(TRUE)]))

\* sample_event_data with a validation_status outside passed / failed.
EventPendingStatusBody ==
    Body("{\"id\":1,\"validation_status\":\"pending\"}",
         JObj([EventFullBody.json.o EXCEPT
                  !["validation_status"] = JStr("pending")]))

\* sample_event_data with validation_status "failed".
EventFailedStatusBody ==
    Body("{\"id\":1,\"validation_status\":\"failed\"}",
         JObj([EventFullBody.json.o EXCEPT
                  !["validation_status"] = JStr("failed")]))

\* sample_event_data with validation_status as the JSON number 7.
EventNumberStatusBody ==
    Body("{\"id\":1,\"validation_status\":7}",
         JObj([EventFullBody.json.o EXCEPT
                  !["validation_status"] = JInt(7)]))

\* sample_contract_data with created_at written with a numeric offset.
ContractOffsetDateBody ==
    Body("{\"id\":1,\"created_at\":\"2026-01-01T00:00:00+00:00\"}",
         JObj([ContractFullBody.json.o EXCEPT
                  !["created_at"] = JStr("2026-01-01T00:00:00+00:00")]))

\* sample_contract_data with created_at as a Unix timestamp.
ContractEpochBody ==
    Body("{\"id\":1,\"created_at\":1767225600}",
         JObj([ContractFullBody.json.o EXCEPT
                  !["created_at"] = JInt(1767225600)]))

\* The parsed bodies handed to model_validate.
DecodeBodies ==
    NonObjectBodies \cup ErrorObjectBodies \cup EntityBodies \cup
        {ContractNullsBody, EventMinimalBody, EventNullVersionBody,
         WebhookMinimalBody, StatsMinimalBody, StatsNullsBody,
         ContractStringIdBody, ContractNumberNameBody, WebhookWordsBody,
         EventPendingStatusBody, EventFailedStatusBody,
         EventNumberStatusBody, ContractOffsetDateBody, ContractEpochBody}

EntityClasses ==
    {"TrackedContract", "ContractEvent", "WebhookSubscription",
     "ContractStats", "RecordEventResponse"}

\* The fields of a class of models.py.
SchemaOf(cls) ==
    CASE cls = "TrackedContract" -> TrackedContract
      [] cls = "ContractEvent" -> ContractEvent
      [] cls = "WebhookSubscription" -> WebhookSubscription
      [] cls = "ContractStats" -> ContractStats
      [] cls = "RecordEventResponse" -> RecordEventResponse

\* The largest number of elements in a page handed to the adapter.
MaxElements == 2

\* The elements of those pages: contracts 1 and 2, a contract holding only
\* its id, events 1 and 2, a webhook.
PageElements ==
    {ContractNBody(1), ContractNBody(2), ContractOnlyIdBody, EventFullBody,
     EventNBody(2), WebhookFullBody}

\* sample_paginated_response without its results key.
PageNoResultsBody ==
    Body("{\"count\":100,\"next\":null,\"previous\":null}",
         JObj([count |-> JInt(100), next |-> JNull, previous |-> JNull]))

\* The parsed bodies handed to the adapter of a list operation.
AdapterBodies ==
    {PageBody(elems) :
        elems \in UNION {[1..n -> PageElements] : n \in 0..MaxElements}}
        \cup {PageNoResultsBody, DetailBody}

\* adapter = TypeAdapter(PaginatedResponse[T]); adapter.validate_python(data)
\* with the T each list method names (client.py 128-129, 288-289, 353-354).
adapter_validate_python(o, data) ==
    CASE o = "get_contracts" ->
            validate_paginated("TrackedContract", TrackedContract, data)
      [] o = "get_events" ->
            validate_paginated("ContractEvent", ContractEvent, data)
      [] o = "get_webhooks" ->
            validate_paginated("WebhookSubscription", WebhookSubscription,
                               data)

InitDecode ==
    /\ client \in DefaultClients
    /\ transport = <<HttpxClient>>
    /\ scope = Outside
    /\ op = "none"
    /\ args = <<>>
    /\ request = NoRequest
    /\ response = NoResponse
    /\ outcome = NoOutcome
    /\ json_calls = 0
    /\ transport_calls = 0
    /\ sent_via = 0
    /\ tasks = <<>>
    /\ in_flight = {}
    /\ completed = <<>>
    /\ gathered = NoOutcome
    /\ pager = NoPager
    /\ server = NoServer
    /\ \/ \E cls \in EntityClasses, b \in DecodeBodies :
             decoding = [cls |-> cls, data |-> b.json, result |-> NoOutcome,
                         mode |-> "none", encoded |-> NoOutcome,
                         again |-> NoOutcome]
       \/ \E o \in {"get_contracts", "get_events", "get_webhooks"},
             b \in AdapterBodies :
             decoding = [cls |-> "PaginatedResponse", op |-> o,
                         data |-> b.json, result |-> NoOutcome]

\* cls.model_validate(data)
decodes ==
    /\ decoding.cls \in EntityClasses
    /\ decoding.result = NoOutcome
    /\ decoding' =
          [decoding EXCEPT
              !.result = model_validate(decoding.cls, SchemaOf(decoding.cls),
                                        decoding.data)]
    /\ UNCHANGED <<client, transport, scope, frame, tasks, in_flight,
                   completed, gathered, pager, server>>

\* The two ways of re-encoding an entity to a map.
DumpModes == {"python", "json"}

\* entity.model_dump() or entity.model_dump(mode="json")
Dump(mode, m) ==
    IF mode = "python" THEN model_dump(m) ELSE model_dump_mode_json(m)

\* The decoded entity is re-encoded.
encodes ==
    /\ decoding.cls \in EntityClasses
    /\ decoding.result.tag = "return"
    /\ decoding.encoded = NoOutcome
    /\ \E mode \in DumpModes :
          decoding' =
              [decoding EXCEPT
                  !.mode = mode,
                  !.encoded = Return(Dump(mode, decoding.result.value))]
    /\ UNCHANGED <<client, transport, scope, frame, tasks, in_flight,
                   completed, gathered, pager, server>>

\* cls.model_validate(encoded): the re-encoded map is decoded again.
decodes_again ==
    /\ decoding.cls \in EntityClasses
    /\ decoding.encoded # NoOutcome
    /\ decoding.again = NoOutcome
    /\ decoding' =
          [decoding EXCEPT
              !.again = model_validate(decoding.cls, SchemaOf(decoding.cls),
                                       decoding.encoded.value)]
    /\ UNCHANGED <<client, transport, scope, frame, tasks, in_flight,
                   completed, gathered, pager, server>>

\* return adapter.validate_python(data)
decodes_page ==
    /\ decoding.cls = "PaginatedResponse"
    /\ decoding.result = NoOutcome
    /\ decoding' =
          [decoding EXCEPT
              !.result = adapter_validate_python(decoding.op, decoding.data)]
    /\ UNCHANGED <<client, transport, scope, frame, tasks, in_flight,
                   completed, gathered, pager, server>>

NextDecode ==
    \/ decodes
    \/ encodes
    \/ decodes_again
    \/ decodes_page

SpecDecode == InitDecode /\ [][NextDecode]_vars


----------------------------------------------------------------------------
(* The list operations against the paginating server of the data model     *)
(* (spec.md section 3, PaginatedResponse<T>): the server holds a           *)
(* collection and answers each list request with the page asked for.        *)

\* The largest collection the server holds.
MaxItems == 4

\* sample_webhook_data with id i.
WebhookNBody(i) ==
    Body("{\"id\":" \o ToString(i) \o ",\"contract\":1}",
         JObj([WebhookFullBody.json.o EXCEPT !["id"] = JInt(i)]))

\* Item i of the collection a list path names.
Item(path, i) ==
    CASE path = "/api/contracts/" -> ContractNBody(i)
      [] path = "/api/events/" -> EventNBody(i)
      [] path = "/api/webhooks/" -> WebhookNBody(i)

\* The link to page p of a listing, as the server writes it.
ListingUrl(path, p, k) ==
    JStr("https://api.test.soroscan.io" \o path \o "?page=" \o ToString(p)
         \o "&page_size=" \o ToString(k))

\* The number of pages of `total` items at k items a page (one, empty, page
\* when there is no item).
PageCount(total, k) == IF total = 0 THEN 1 ELSE (total + k - 1) \div k

\* The server's answer to a list request: page `page` of the collection at
\* `page_size` items a page, with next and previous set unless the page is
\* the last, respectively the first; a 404 for a page that does not exist.
Paginator(srv, req) ==
    LET p == req.params.o["page"].n
        k == req.params.o["page_size"].n
        first == (p - 1) * k + 1
        last == IF p * k < srv.total THEN p * k ELSE srv.total
    IN  IF p \notin 1..PageCount(srv.total, k)
        THEN Responded([status_code |-> 404, body |-> DetailBody])
        ELSE Responded(
                 [status_code |-> 200,
                  body |->
                     Body("{\"count\":" \o ToString(srv.total) \o ",\"page\":"
                          \o ToString(p) \o ",\"page_size\":" \o ToString(k)
                          \o "}",
                          JObj([count |-> JInt(srv.total),
                                next |-> IF p < PageCount(srv.total, k)
                                         THEN ListingUrl(req.path, p + 1, k)
                                         ELSE JNull,
                                previous |-> IF p > 1
                                             THEN ListingUrl(req.path, p - 1, k)
                                             ELSE JNull,
                                results |->
                                    JArr([i \in 1..(last - first + 1) |->
                                            Item(req.path,
                                                 first + i - 1).json])]))])

\* The page and page_size arguments of the modelled callers.
ListedPages == {Unset, JInt(1), JInt(2), JInt(3)}
ListedSizes == {Unset, JInt(1), JInt(2)}

InitListing ==
    /\ client \in DefaultClients
    /\ transport = <<HttpxClient>>
    /\ scope = Outside
    /\ sent_via = 0
    /\ op = "none"
    /\ args = <<>>
    /\ request = NoRequest
    /\ response = NoResponse
    /\ outcome = NoOutcome
    /\ json_calls = 0
    /\ transport_calls = 0
    /\ tasks = <<>>
    /\ in_flight = {}
    /\ completed = <<>>
    /\ gathered = NoOutcome
    /\ pager = NoPager
    /\ decoding = NoDecoding
    /\ \E n \in 0..MaxItems : server = [t |-> "paginator", total |-> n]

\* client.get_contracts(page=..., page_size=...) answered by the server.
listed_contracts ==
    /\ Idle
    /\ \E page \in ListedPages, page_size \in ListedSizes :
           LET req == Request("GET", "/api/contracts/", get_headers(client),
                              get_contracts_params(JNull, JNull, page,
                                                   page_size),
                              Absent)
               t == Paginator(server, req)
           IN  Called("get_contracts",
                      [is_active |-> JNull, search |-> JNull,
                       page |-> page, page_size |-> page_size],
                      req, t, Page(t, "TrackedContract", TrackedContract),
                      TRUE)

\* client.get_events(page=..., page_size=...) answered by the server.
listed_events ==
    /\ Idle
    /\ \E page \in ListedPages, page_size \in ListedSizes :
           LET req == Request("GET", "/api/events/", get_headers(client),
                              get_events_params(JNull, JNull, JNull, JNull,
                                                JNull, JNull, Unset, page,
                                                page_size),
                              Absent)
               t == Paginator(server, req)
           IN  Called("get_events",
                      [contract_id |-> JNull, event_type |-> JNull,
                       ledger |-> JNull, ledger_min |-> JNull,
                       ledger_max |-> JNull, validation_status |-> JNull,
                       ordering |-> Unset, page |-> page,
                       page_size |-> page_size],
                      req, t, Page(t, "ContractEvent", ContractEvent), TRUE)

\* client.get_webhooks(page=..., page_size=...) answered by the server.
listed_webhooks ==
    /\ Idle
    /\ \E page \in ListedPages, page_size \in ListedSizes :
           LET req == Request("GET", "/api/webhooks/", get_headers(client),
                              get_webhooks_params(page, page_size), Absent)
               t == Paginator(server, req)
           IN  Called("get_webhooks",
                      [page |-> page, page_size |-> page_size],
                      req, t,
                      Page(t, "WebhookSubscription", WebhookSubscription),
                      TRUE)

NextListing ==
    \/ listed_contracts
    \/ listed_events
    \/ listed_webhooks
    \/ call_ends

SpecListing == InitListing /\ [][NextListing]_vars

----------------------------------------------------------------------------
(* Properties of the response decoder and the facade.                       *)

\* A facade call has ended after the transport returned an HTTP response.
Answered == op # "none" /\ response.tag = "response"

\* The status code and body of that response.
Status == response.response.status_code
ResponseBody == response.response.body

DeleteOps == {"delete_contract", "delete_webhook"}
SuccessStatuses == {200, 201, 202}

\* The response is one the facade method does not treat as a success.
ErrorAnswered ==
    /\ Answered
    /\ Status \notin SuccessStatuses
    /\ ~(op \in DeleteOps /\ Status = 204)

\* The caller got an error of the SoroScanAPIError family.
RaisedAPIError ==
    outcome.tag = "raise" /\ IsInstance(outcome.exc, "SoroScanAPIError")

\* The status table of the error taxonomy.
TableKind(s) ==
    CASE s = 400 -> "SoroScanValidationError"
      [] s \in {401, 403} -> "SoroScanAuthError"
      [] s = 404 -> "SoroScanNotFoundError"
      [] s = 429 -> "SoroScanRateLimitError"
      [] OTHER -> "SoroScanAPIError"

\* C1: for each status in {400, 401, 403, 404, 429, 500} handed to the
\* decoder, the error raised is exactly the kind of the status table and its
\* status_code equals the input status.
C1_StatusTableKinds ==
    (Answered /\ Status \in {400, 401, 403, 404, 429, 500}) =>
        /\ outcome.tag = "raise"
        /\ outcome.exc = TableKind(Status)
        /\ outcome.status_code = Status

\* C2: every response that is not a success for the operation makes the
\* facade raise exactly one taxonomy error, whose kind depends on the status
\* code alone: the same for every body and every operation.
C2_TaxonomyTotal ==
    ErrorAnswered =>
        /\ outcome.tag = "raise"
        /\ outcome.exc \in APIErrorKinds
        /\ \A r \in Responses :
              r.status_code = Status =>
                  /\ handle_response(r).tag = "raise"
                  /\ handle_response(r).exc = outcome.exc

\* C3: whatever the body of a non-success response (empty, invalid JSON, or
\* JSON that is not an object), the caller gets the taxonomy error of the
\* status; no exception of the body's extraction escapes in its place.
C3_MalformedBodyNeverMasks ==
    (ErrorAnswered /\ ResponseBody \in UnparseableBodies \cup NonObjectBodies)
        => /\ RaisedAPIError
           /\ outcome.exc = TableKind(Status)

\* C4: a 404 whose body is not valid JSON raises SoroScanNotFoundError with
\* status_code 404, response_data the empty map and message the raw text.
C4_Malformed404 ==
    (Answered /\ Status = 404 /\ ResponseBody.json = JsonInvalid) =>
        /\ outcome.tag = "raise"
        /\ outcome.exc = "SoroScanNotFoundError"
        /\ outcome.status_code = 404
        /\ outcome.response_data = EmptyDict
        /\ outcome.message = JStr(ResponseBody.text)

\* C4 witness: a 404 with an HTML body has been decoded to a not-found error
\* whose message is that HTML.
C4_Witness ==
    /\ Answered
    /\ Status = 404
    /\ ResponseBody = HtmlBody
    /\ outcome.tag = "raise"
    /\ outcome.exc = "SoroScanNotFoundError"
    /\ outcome.message = JStr("<html>Bad Gateway</html>")

\* The parsed error body has key k.
HasKey(k) == ResponseBody.json.t = "obj" /\ k \in DOMAIN ResponseBody.json.o

\* The parsed error body has key k with a value Python takes as true.
HasTruthy(k) == HasKey(k) /\ Truthy(ResponseBody.json.o[k])

\* C5 as stated: the message of an HTTP-status error is chosen by key
\* presence: the value of `detail` if the body has that key, else the value
\* of `error` if it has that key, else the raw response text.
C5_MessageByKeyPresence ==
    (ErrorAnswered /\ RaisedAPIError) =>
        outcome.message =
            IF HasKey("detail") THEN ResponseBody.json.o["detail"]
            ELSE IF HasKey("error") THEN ResponseBody.json.o["error"]
            ELSE JStr(ResponseBody.text)

\* C5 amended: the message of an HTTP-status error is the value of `detail`
\* if the body has that key with a non-empty, non-null value, else the value
\* of `error` if it has that key with such a value, else the raw response
\* text; a 404 with {"detail": "Not found"} gives "Not found".
C5_MessageByTruthiness ==
    (ErrorAnswered /\ RaisedAPIError) =>
        /\ outcome.message =
              IF HasTruthy("detail") THEN ResponseBody.json.o["detail"]
              ELSE IF HasTruthy("error") THEN ResponseBody.json.o["error"]
              ELSE JStr(ResponseBody.text)
        /\ (Status = 404 /\ ResponseBody = DetailBody) =>
              outcome.message = JStr("Not found")

\* C5 witness: an error body whose `detail` is the empty string has been
\* decoded, and the message is the value of `error`.
C5_Witness ==
    /\ ErrorAnswered
    /\ RaisedAPIError
    /\ ResponseBody = EmptyDetailBody
    /\ outcome.message = JStr("E")

\* The query parameters of the request sent.
Params == request.params.o

\* A filter argument a is sent under key iff it was given, with its value.
SentIffGiven(a, key) ==
    IF a = JNull THEN key \notin DOMAIN Params
    ELSE key \in DOMAIN Params /\ Params[key] = a

\* C6: in get_contracts and get_events an absent filter argument is never a
\* key of the query parameters, and a present one is, even when its value is
\* 0, False or the empty string.
C6_PresenceGovernsFilters ==
    /\ op = "get_contracts" =>
          /\ SentIffGiven(args.is_active, "is_active")
          /\ SentIffGiven(args.search, "search")
    /\ (op = "get_events" /\ request # NoRequest) =>
          /\ SentIffGiven(args.contract_id, "contract__contract_id")
          /\ SentIffGiven(args.event_type, "event_type")
          /\ SentIffGiven(args.ledger, "ledger")
          /\ SentIffGiven(args.ledger_min, "ledger__gte")
          /\ SentIffGiven(args.ledger_max, "ledger__lte")
          /\ SentIffGiven(args.validation_status, "validation_status")

\* The call met a transport-level failure: the transport raised, or a
\* success response carried a body that does not parse.
TransportFailure ==
    /\ op # "none"
    /\ \/ response.tag = "error"
       \/ /\ Answered
          /\ Status \in SuccessStatuses
          /\ ResponseBody.json = JsonInvalid

\* C7: a timeout or any other transport-level failure reaches the caller as
\* an error of the base SDK kind SoroScanError that is not one of the
\* HTTP-status kinds.
C7_TransportFailuresAreSDKErrors ==
    TransportFailure =>
        /\ outcome.tag = "raise"
        /\ IsInstance(outcome.exc, "SoroScanError")
        /\ ~IsInstance(outcome.exc, "SoroScanAPIError")

\* Pages whose results are drawn from the given element bodies.
PagesOf(elems) ==
    {PageBody(e) : e \in UNION {[1..n -> elems] : n \in 0..MaxResults}}

\* The modelled bodies that fit the shape each operation expects, read off
\* models.py field by field (for test_webhook, its declared dict[str, str]).
ValidBodies(o) ==
    CASE o \in {"get_contract", "create_contract", "update_contract"} ->
            {ContractFullBody, ContractMinimalBody}
      [] o = "get_contracts" -> PagesOf({ContractFullBody})
      [] o = "get_contract_stats" -> {StatsFullBody}
      [] o = "get_events" -> PagesOf({EventFullBody})
      [] o = "get_event" -> {EventFullBody}
      [] o = "record_event" -> {RecordEventResponseBody, TestWebhookBody}
      [] o = "get_webhooks" -> PagesOf({WebhookFullBody})
      [] o \in {"get_webhook", "create_webhook", "update_webhook"} ->
            {WebhookFullBody}
      [] o = "test_webhook" ->
            {EmptyObjectBody, DetailBody, ErrorBody, DetailAndErrorBody,
             EmptyDetailBody, OtherKeyBody, TestWebhookBody}
      [] OTHER -> {}

\* A success response whose body parses but does not fit the expected shape.
SchemaMismatch ==
    /\ Answered
    /\ op \notin DeleteOps
    /\ Status \in SuccessStatuses
    /\ ResponseBody.json # JsonInvalid
    /\ ResponseBody \notin ValidBodies(op)

\* The caller got a schema-decode failure: pydantic's ValidationError, which
\* is outside the SoroScanError hierarchy.
RaisedSchemaError ==
    /\ outcome.tag = "raise"
    /\ outcome.exc = "ValidationError"
    /\ ~IsInstance(outcome.exc, "SoroScanError")

Stands(v, j) == v = j \/ (v.t = "datetime" /\ j.t = "str" /\ v.iso = j.s)

\* Entity e is of class cls and carries every field of the wire object j.
EntityOf(e, cls, j) ==
    /\ e.t = "model"
    /\ e.cls = cls
    /\ DOMAIN j.o \subseteq DOMAIN e.f
    /\ \A k \in DOMAIN j.o : Stands(e.f[k], j.o[k])

\* The entity class each operation decodes.
EntityClass(o) ==
    CASE o \in {"get_contracts", "get_contract", "create_contract",
                "update_contract"} -> "TrackedContract"
      [] o = "get_contract_stats" -> "ContractStats"
      [] o \in {"get_events", "get_event"} -> "ContractEvent"
      [] o = "record_event" -> "RecordEventResponse"
      [] OTHER -> "WebhookSubscription"

ListOps == {"get_contracts", "get_events", "get_webhooks"}

\* C9: for every operation but the deletes, a 200, 201 or 202 with a
\* schema-valid body makes the facade return the typed value decoded from
\* that body; the sample page yields count 100 and one TrackedContract named
\* "Test Token", and a 202 record-event response yields status "submitted".
C9_SuccessDecodes ==
    (Answered /\ op \notin DeleteOps /\ Status \in SuccessStatuses
        /\ ResponseBody \in ValidBodies(op)) =>
        LET j == ResponseBody.json
            v == outcome.value
        IN  /\ outcome.tag = "return"
            /\ op = "test_webhook" => v = j
            /\ (op \notin ListOps /\ op # "test_webhook") =>
                  EntityOf(v, EntityClass(op), j)
            /\ op \in ListOps =>
                  /\ v.t = "model"
                  /\ v.cls = "PaginatedResponse"
                  /\ v.f.count = j.o["count"]
                  /\ v.f.next = j.o["next"]
                  /\ v.f.previous = j.o["previous"]
                  /\ Len(v.f.results.a) = Len(j.o["results"].a)
                  /\ \A i \in DOMAIN v.f.results.a :
                        EntityOf(v.f.results.a[i], EntityClass(op),
                                 j.o["results"].a[i])
            /\ (op = "get_contracts"
                    /\ ResponseBody = PageBody(<<ContractFullBody>>)) =>
                  /\ v.f.count = JInt(100)
                  /\ Len(v.f.results.a) = 1
                  /\ v.f.results.a[1].cls = "TrackedContract"
                  /\ v.f.results.a[1].f.name = JStr("Test Token")
            /\ (op = "record_event" /\ Status = 202
                    /\ ResponseBody = RecordEventResponseBody) =>
                  /\ v.cls = "RecordEventResponse"
                  /\ v.f.status = JStr("submitted")

\* C9 witness: get_contracts got the sample page with one contract and
\* returned a page of count 100 holding one contract named "Test Token".
C9_Witness ==
    /\ op = "get_contracts"
    /\ Answered
    /\ Status = 200
    /\ ResponseBody = PageBody(<<ContractFullBody>>)
    /\ outcome.tag = "return"
    /\ outcome.value.f.count = JInt(100)
    /\ Len(outcome.value.f.results.a) = 1
    /\ outcome.value.f.results.a[1].f.name = JStr("Test Token")

\* C10: a delete returns nothing and raises nothing on a 204, without
\* parsing the body; on any other status the response goes through the
\* decoder of every other operation, so each error status raises its
\* taxonomy kind.
C10_Delete ==
    (Answered /\ op \in DeleteOps) =>
        /\ Status = 204 => (outcome = Return(JNull) /\ json_calls = 0)
        /\ Status # 204 =>
              /\ json_calls = 1
              /\ handle_response(response.response).tag = "raise" =>
                    outcome = handle_response(response.response)
              /\ handle_response(response.response).tag = "return" =>
                    outcome = Return(JNull)
              /\ Status \notin SuccessStatuses =>
                    (RaisedAPIError /\ outcome.exc = TableKind(Status))

\* C11: record_event fails without any transport call when contract_id is
\* longer than 56 characters, event_type longer than 100 or payload_hash
\* longer than 64; otherwise (lengths of exactly 56, 100 and 64 included) it
\* makes exactly one POST to /api/record-event/ whose JSON body holds the
\* three fields unchanged.
C11_RecordEventCeilings ==
    op = "record_event" =>
        IF \/ Len(args.contract_id.s) > 56
           \/ Len(args.event_type.s) > 100
           \/ Len(args.payload_hash.s) > 64
        THEN /\ outcome.tag = "raise"
             /\ request = NoRequest
             /\ response = NoResponse
             /\ transport_calls = 0
        ELSE /\ transport_calls = 1
             /\ request.method = "POST"
             /\ request.path = "/api/record-event/"
             /\ request.json =
                   JObj([contract_id |-> args.contract_id,
                         event_type |-> args.event_type,
                         payload_hash |-> args.payload_hash])

\* C11 witness: record_event was called with fields of exactly 56, 100 and 64
\* characters and the one POST went out with them.
C11_Witness ==
    /\ op = "record_event"
    /\ Len(args.contract_id.s) = 56
    /\ Len(args.event_type.s) = 100
    /\ Len(args.payload_hash.s) = 64
    /\ transport_calls = 1
    /\ request.method = "POST"
    /\ request.json.o["event_type"] = args.event_type

\* C12: the facade holds exactly one transport resource, acquired by the
\* constructor and never replaced; every transport call of every facade call
\* goes through it; close() releases it, and so does leaving a `with` block,
\* normally or by an exception, so that once the block has been left the
\* resource is in the released state.
C12_OneTransportResource ==
    /\ [](/\ Len(transport) = 1
          /\ client._client = 1
          /\ transport_calls > 0 => sent_via = client._client
          /\ scope.pos = "left" => transport[client._client].is_closed)
    /\ [][(close \/ exit) => transport'[client._client].is_closed]_vars
    /\ [][transport[client._client].is_closed
            => transport'[client._client].is_closed]_vars

\* C12 witness: a facade call inside the block raised, the block was left by
\* that exception, and the transport is closed.
C12_Witness ==
    /\ scope.pos = "left"
    /\ scope.exc = JStr("SoroScanNotFoundError")
    /\ transport[client._client].is_closed

\* C15: for every operation, every argument combination and every transport
\* result, AsyncSoroScanClient emits the request SoroScanClient emitted
\* (method, path, headers, query parameters, JSON body) and gives its caller
\* the outcome SoroScanClient gave: the same value, or an error of the same
\* kind with the same status_code, message and response_data.
C15_AsyncSameAsSync ==
    op # "none" =>
        /\ request = AsyncRequest(op, args, client)
        /\ outcome = AsyncOutcome(op, args, response)

\* C15 witness: update_webhook(is_active=False, event_type="") got a 404
\* with {"detail": "Not found"}; both facades sent the PATCH with the two
\* fields and raised the same SoroScanNotFoundError.
C15_Witness ==
    /\ op = "update_webhook"
    /\ args.is_active = JBool(FALSE)
    /\ args.event_type = JStr("")
    /\ Answered
    /\ Status = 404
    /\ ResponseBody = DetailBody
    /\ request.json.o["is_active"] = JBool(FALSE)
    /\ AsyncRequest(op, args, client).json.o["event_type"] = JStr("")
    /\ AsyncOutcome(op, args, response).exc = "SoroScanNotFoundError"
    /\ outcome.message = JStr("Not found")

C14_PagingLoop ==
    pager.pc # "none" =>
        /\ pager.calls <= pager.pages
        /\ pager.pc # "raised"
        /\ pager.pc = "done" =>
              /\ pager.calls = pager.pages
              /\ pager.page = pager.pages
              /\ Len(pager.all_events) = pager.pages * pager.page_size
              /\ \A k \in DOMAIN pager.all_events :
                    /\ pager.all_events[k].cls = "ContractEvent"
                    /\ pager.all_events[k].f.id = JInt(k)
              /\ pager.response.value.f.next = JNull
              /\ pager.pages >= 2 =>
                    pager.response.value.f.previous = PageUrl(pager.pages - 1)

\* C14 witness: the loop over three pages has stopped after three calls
\* with all the events, on a page whose previous is the link to page 2.
C14_Witness ==
    /\ pager.pc = "done"
    /\ pager.pages = 3
    /\ pager.calls = 3
    /\ Len(pager.all_events) = 3 * pager.page_size
    /\ pager.response.value.f.next = JNull
    /\ pager.response.value.f.previous = PageUrl(2)

\* C16: every facade call makes at most one transport call, and exactly one
\* unless record_event's request validation failed before transmission;
\* whatever came of that call (any status, 429 and 5xx included, or a
\* transport failure) the result or error goes to the caller with no
\* further transport call.
C16_NoRetry ==
    op # "none" =>
        /\ transport_calls <= 1
        /\ transport_calls = 0 <=>
              /\ op = "record_event"
              /\ \/ Len(args.contract_id.s) > 56
                 \/ Len(args.event_type.s) > 100
                 \/ Len(args.payload_hash.s) > 64
        /\ outcome.tag \in {"return", "raise"}
        /\ response.tag = "error" => outcome = Raise(response.exc)
        /\ (Answered /\ Status \in {429, 500}) => outcome.tag = "raise"

\* C16 witness: a call was answered 429 and the caller got the rate-limit
\* error after the one transport call.
C16_Witness ==
    /\ Answered
    /\ Status = 429
    /\ transport_calls = 1
    /\ outcome.tag = "raise"
    /\ outcome.exc = "SoroScanRateLimitError"

\* An API key was configured on the client: a key, that is a non-empty
\* string, was given to the constructor.
KeyConfigured == client.api_key.t = "str" /\ client.api_key.s # ""

\* C17: every request of every operation carries Content-Type:
\* application/json, and carries Authorization if and only if an API key was
\* configured on the client; its value is then exactly "Bearer " followed by
\* the configured key.
C17_Headers ==
    (op # "none" /\ request # NoRequest) =>
        LET h == request.headers.o
        IN  /\ "Content-Type" \in DOMAIN h
            /\ h["Content-Type"] = JStr("application/json")
            /\ "Authorization" \in DOMAIN h <=> KeyConfigured
            /\ KeyConfigured =>
                  h["Authorization"] = JStr("Bearer " \o client.api_key.s)

\* C17 witness: a DELETE went out from a client configured with the test's
\* key, carrying both headers.
C17_Witness ==
    /\ op = "delete_webhook"
    /\ client.api_key = JStr("test-api-key-12345")
    /\ request.headers.o["Content-Type"] = JStr("application/json")
    /\ request.headers.o["Authorization"] = JStr("Bearer test-api-key-12345")

\* C18: get_contracts, get_events and get_webhooks always emit both the page
\* and the page_size query parameters, equal to the caller's arguments, and
\* equal to 1 and 50 respectively when the caller supplies none.
C18_PagingParams ==
    op \in {"get_contracts", "get_events", "get_webhooks"} =>
        /\ "page" \in DOMAIN request.params.o
        /\ "page_size" \in DOMAIN request.params.o
        /\ request.params.o["page"] =
              IF args.page = Unset THEN JInt(1) ELSE args.page
        /\ request.params.o["page_size"] =
              IF args.page_size = Unset THEN JInt(50) ELSE args.page_size

\* C18 witness: get_webhooks() was called without arguments and sent
\* page=1 and page_size=50.
C18_Witness ==
    /\ op = "get_webhooks"
    /\ args.page = Unset
    /\ args.page_size = Unset
    /\ request.params = JObj([page |-> JInt(1), page_size |-> JInt(50)])

\* The HTTP method of each operation in the wire-contract table.
WireMethod(o) ==
    CASE o \in {"get_contracts", "get_contract", "get_contract_stats",
                "get_events", "get_event", "get_webhooks", "get_webhook"}
            -> "GET"
      [] o \in {"create_contract", "record_event", "create_webhook",
                "test_webhook"} -> "POST"
      [] o \in {"update_contract", "update_webhook"} -> "PATCH"
      [] o \in {"delete_contract", "delete_webhook"} -> "DELETE"

\* An identifier argument as it stands in a path.
IdText(v) == IF v.t = "int" THEN ToString(v.n) ELSE v.s

\* The path template of each operation in the wire-contract table, with the
\* caller's identifier argument in place of {id}.
WirePath(o, a) ==
    CASE o \in {"get_contracts", "create_contract"} -> "/api/contracts/"
      [] o \in {"get_contract", "update_contract", "delete_contract"} ->
            "/api/contracts/" \o IdText(a.contract_id) \o "/"
      [] o = "get_contract_stats" ->
            "/api/contracts/" \o IdText(a.contract_id) \o "/stats/"
      [] o = "get_events" -> "/api/events/"
      [] o = "get_event" -> "/api/events/" \o IdText(a.event_id) \o "/"
      [] o = "record_event" -> "/api/record-event/"
      [] o \in {"get_webhooks", "create_webhook"} -> "/api/webhooks/"
      [] o \in {"get_webhook", "update_webhook", "delete_webhook"} ->
            "/api/webhooks/" \o IdText(a.webhook_id) \o "/"
      [] o = "test_webhook" ->
            "/api/webhooks/" \o IdText(a.webhook_id) \o "/test/"

\* C19: each of the fifteen operations uses the HTTP method and the path
\* template of the wire-contract table, the {id} of the template being the
\* caller's identifier argument.
C19_WireTable ==
    (op # "none" /\ request # NoRequest) =>
        /\ request.method = WireMethod(op)
        /\ request.path = WirePath(op, args)

\* C19 witness: delete_contract("999") sent DELETE /api/contracts/999/.
C19_Witness ==
    /\ op = "delete_contract"
    /\ args.contract_id = JStr("999")
    /\ request.method = "DELETE"
    /\ request.path = "/api/contracts/999/"

\* The key k is unspecified in the decoded map.
Unspecified(k) == k \notin DOMAIN decoding.data.o

\* The key k is missing from the decoded map or carries null.
MissingOrNull(k) == Unspecified(k) \/ decoding.data.o[k] = JNull

\* The optional fields of each entity class.
OptionalFields(cls) ==
    CASE cls = "TrackedContract" -> {"abi_schema", "last_indexed_ledger"}
      [] cls = "ContractEvent" -> {"schema_version"}
      [] cls = "WebhookSubscription" -> {"last_triggered"}
      [] cls = "ContractStats" -> {"latest_ledger", "last_activity"}
      [] OTHER -> {}

\* The maps that hold every required field of their class and leave out, or
\* set to null, optional and defaulted ones.
SparseMaps ==
    {<<"TrackedContract", ContractMinimalBody>>,
     <<"TrackedContract", ContractNullsBody>>,
     <<"TrackedContract", ContractFullBody>>,
     <<"ContractEvent", EventMinimalBody>>,
     <<"ContractEvent", EventNullVersionBody>>,
     <<"WebhookSubscription", WebhookMinimalBody>>,
     <<"WebhookSubscription", WebhookFullBody>>,
     <<"ContractStats", StatsMinimalBody>>,
     <<"ContractStats", StatsNullsBody>>}

\* C20: decoding gives an unspecified key its documented default
\* (TrackedContract: description "", is_active true, event_count 0;
\* WebhookSubscription: event_type "", is_active true, failure_count 0), and
\* every optional field (abi_schema, last_indexed_ledger, schema_version,
\* last_triggered, latest_ledger, last_activity) decodes to absent both when
\* its key is missing and when it carries null; such maps decode.
C20_DecodeDefaults ==
    (decoding.cls # "none" /\ decoding.result # NoOutcome) =>
        /\ (\E b \in DecodeBodies :
                /\ <<decoding.cls, b>> \in SparseMaps
                /\ b.json = decoding.data)
              => decoding.result.tag = "return"
        /\ decoding.result.tag = "return" =>
              LET e == decoding.result.value.f
              IN  /\ decoding.cls = "TrackedContract" =>
                        /\ Unspecified("description") =>
                              e.description = JStr("")
                        /\ Unspecified("is_active") =>
                              e.is_active = JBool(TRUE)
                        /\ Unspecified("event_count") =>
                              e.event_count = JInt(0)
                  /\ decoding.cls = "WebhookSubscription" =>
                        /\ Unspecified("event_type") =>
                              e.event_type = JStr("")
                        /\ Unspecified("is_active") =>
                              e.is_active = JBool(TRUE)
                        /\ Unspecified("failure_count") =>
                              e.failure_count = JInt(0)
                  /\ \A k \in OptionalFields(decoding.cls) :
                        MissingOrNull(k) => e[k] = JNull

\* C20 witness: the webhook map without event_type, is_active, failure_count
\* and last_triggered was decoded to "", true, 0 and absent.
C20_Witness ==
    /\ decoding.cls = "WebhookSubscription"
    /\ decoding.data = WebhookMinimalBody.json
    /\ decoding.result.tag = "return"
    /\ decoding.result.value.f.event_type = JStr("")
    /\ decoding.result.value.f.is_active = JBool(TRUE)
    /\ decoding.result.value.f.failure_count = JInt(0)
    /\ decoding.result.value.f.last_triggered = JNull

\* The JSON types a value of each declared field type has on the wire.
WireTypes(ty) ==
    CASE ty = "int" -> {"int"}
      [] ty = "str" -> {"str"}
      [] ty = "bool" -> {"bool"}
      [] ty = "dict" -> {"obj"}
      [] ty = "datetime" -> {"str"}
      [] ty = "int?" -> {"int", "null"}
      [] ty = "str?" -> {"str", "null"}
      [] ty = "dict?" -> {"obj", "null"}
      [] ty = "datetime?" -> {"str", "null"}

\* The required fields of each entity class (those declared without a
\* default).
RequiredFields(cls) ==
    CASE cls = "TrackedContract" ->
            {"id", "contract_id", "name", "created_at", "updated_at"}
      [] cls = "ContractEvent" ->
            {"id", "contract_id", "contract_name", "event_type", "payload",
             "payload_hash", "ledger", "timestamp", "tx_hash"}
      [] cls = "WebhookSubscription" ->
            {"id", "contract", "contract_id", "target_url", "created_at"}
      [] cls = "ContractStats" ->
            {"contract_id", "name", "total_events", "unique_event_types"}
      [] cls = "RecordEventResponse" -> {"status"}

\* The decoded map lacks a required field of the class.
MissingRequired ==
    \E f \in RequiredFields(decoding.cls) : f \notin DOMAIN decoding.data.o

\* The decoded map holds, under a field of the class, a value whose JSON
\* type is not the field's.
Mistyped ==
    \E f \in DOMAIN SchemaOf(decoding.cls) :
        /\ f \in DOMAIN decoding.data.o
        /\ decoding.data.o[f].t \notin WireTypes(SchemaOf(decoding.cls)[f].ty)

\* One call of model_validate on a map has returned or raised.
Decoded ==
    /\ decoding.cls \in EntityClasses
    /\ decoding.result # NoOutcome
    /\ decoding.data.t = "obj"

\* C21: decoding an entity from an untyped map either yields a fully typed
\* entity or fails: it fails whenever a required field is missing and
\* whenever a field's value is of the wrong type, and never yields an entity
\* with a required field unset.
C21_DecodeTypedOrFails ==
    Decoded =>
        /\ decoding.result.tag \in {"return", "raise"}
        /\ MissingRequired => decoding.result.tag = "raise"
        /\ Mistyped => decoding.result.tag = "raise"
        /\ decoding.result.tag = "return" =>
              /\ decoding.result.value.cls = decoding.cls
              /\ \A f \in RequiredFields(decoding.cls) :
                    /\ f \in DOMAIN decoding.result.value.f
                    /\ decoding.result.value.f[f] # JNull

\* The element bodies that fit each entity class, read off models.py.
ValidElements(cls) ==
    CASE cls = "TrackedContract" -> {ContractNBody(1), ContractNBody(2)}
      [] cls = "ContractEvent" -> {EventFullBody, EventNBody(2)}
      [] cls = "WebhookSubscription" -> {WebhookFullBody}

\* The adapter of a list operation has returned or raised on a page body
\* that holds a results array.
PageDecoded ==
    /\ decoding.cls = "PaginatedResponse"
    /\ decoding.result # NoOutcome
    /\ "results" \in DOMAIN decoding.data.o

\* The results array on the wire.
WireResults == decoding.data.o["results"].a

\* C22: a paginated envelope is decoded element by element with the schema
\* of the entity type of the list operation (TrackedContract for
\* get_contracts, ContractEvent for get_events, WebhookSubscription for
\* get_webhooks): the result's elements keep the order of the wire results,
\* each is a typed entity of that type, and if any single element fails its
\* schema the whole decode fails and gives no page.
C22_PageElementwise ==
    PageDecoded =>
        LET cls == EntityClass(decoding.op)
        IN  IF \A i \in DOMAIN WireResults :
                  \E b \in ValidElements(cls) : b.json = WireResults[i]
            THEN /\ decoding.result.tag = "return"
                 /\ decoding.result.value.cls = "PaginatedResponse"
                 /\ Len(decoding.result.value.f.results.a) = Len(WireResults)
                 /\ \A i \in DOMAIN WireResults :
                       EntityOf(decoding.result.value.f.results.a[i], cls,
                                WireResults[i])
            ELSE decoding.result = Raise("ValidationError")

\* C22 witness: get_contracts decoded a page holding contract 2 then
\* contract 1 into two TrackedContracts in that order.
C22_Witness ==
    /\ PageDecoded
    /\ decoding.op = "get_contracts"
    /\ decoding.data = PageBody(<<ContractNBody(2), ContractNBody(1)>>).json
    /\ decoding.result.tag = "return"
    /\ decoding.result.value.f.results.a[1].cls = "TrackedContract"
    /\ decoding.result.value.f.results.a[1].f.id = JInt(2)
    /\ decoding.result.value.f.results.a[2].f.name = JStr("Contract 1")

\* The four specific kinds of the taxonomy.
SpecificKinds ==
    {"SoroScanValidationError", "SoroScanAuthError", "SoroScanNotFoundError",
     "SoroScanRateLimitError"}

\* The call raised one of the errors _handle_response builds from a status.
RaisedForStatus ==
    /\ Answered
    /\ outcome.tag = "raise"
    /\ outcome.exc \in APIErrorKinds

ValidationStatuses == {JStr("passed"), JStr("failed")}

\* C24: decoding a ContractEvent accepts only the validation-status values
\* "passed" and "failed", defaulting to "passed" when the key is absent; a
\* wire value outside that enumeration makes the decode fail instead of
\* producing an event.
C24_ValidationStatusEnum ==
    (Decoded /\ decoding.cls = "ContractEvent") =>
        /\ decoding.result.tag = "return" =>
              /\ decoding.result.value.f.validation_status
                    \in ValidationStatuses
              /\ "validation_status" \notin DOMAIN decoding.data.o =>
                    decoding.result.value.f.validation_status = JStr("passed")
        /\ ("validation_status" \in DOMAIN decoding.data.o
               /\ decoding.data.o["validation_status"] \notin ValidationStatuses)
              => decoding.result.tag = "raise"

\* The page number and page size a list call asked for.
AskedPage == IF args.page = Unset THEN 1 ELSE args.page.n
AskedSize == IF args.page_size = Unset THEN 50 ELSE args.page_size.n

\* A list operation returned a PaginatedResponse.
PageReturned ==
    /\ op \in ListOps
    /\ outcome.tag = "return"

TimestampFields(cls) ==
    CASE cls = "TrackedContract" -> {"created_at", "updated_at"}
      [] cls = "ContractEvent" -> {"timestamp"}
      [] cls = "WebhookSubscription" -> {"created_at", "last_triggered"}
      [] cls = "ContractStats" -> {"last_activity"}
      [] OTHER -> {}

\* The defaults of the fields a map may leave out, class by class.
Defaults(cls) ==
    CASE cls = "TrackedContract" ->
            [description |-> JStr(""), abi_schema |-> JNull,
             is_active |-> JBool(TRUE), last_indexed_ledger |-> JNull,
             event_count |-> JInt(0)]
      [] cls = "ContractEvent" ->
            [event_index |-> JInt(0), schema_version |-> JNull,
             validation_status |-> JStr("passed")]
      [] cls = "WebhookSubscription" ->
            [event_type |-> JStr(""), is_active |-> JBool(TRUE),
             last_triggered |-> JNull, failure_count |-> JInt(0)]
      [] cls = "ContractStats" ->
            [latest_ledger |-> JNull, last_activity |-> JNull]

\* The ISO-8601 spellings of the modelled timestamps, and whether a spelling
\* is the one with "Z".
TimestampSpellings ==
    {"2026-01-01T00:00:00Z", "2026-01-02T00:00:00Z", "2026-01-01T12:00:00Z",
     "2026-01-01T00:00:00+00:00"}
SpelledWithZ(x) == x # "2026-01-01T00:00:00+00:00"

\* The same instant spelled with "Z".
Respelled(x) == IF SpelledWithZ(x) THEN x ELSE "2026-01-01T00:00:00Z"

\* The decoded map is schema-valid for its class: it holds every required
\* field, no field outside the class, each value has its field's JSON type
\* and each timestamp is an ISO-8601 string.
SchemaValid ==
    /\ decoding.cls \in EntityClasses \ {"RecordEventResponse"}
    /\ decoding.data.t = "obj"
    /\ DOMAIN decoding.data.o \subseteq DOMAIN SchemaOf(decoding.cls)
    /\ ~MissingRequired
    /\ ~Mistyped
    /\ \A f \in TimestampFields(decoding.cls) \cap DOMAIN decoding.data.o :
          \/ decoding.data.o[f] = JNull
          \/ decoding.data.o[f].s \in TimestampSpellings

\* The input extended with the defaults of the fields it leaves out.
WithDefaults == decoding.data.o @@ Defaults(decoding.cls)

ReEncoded(f) ==
    LET v == WithDefaults[f]
    IN  IF f \in TimestampFields(decoding.cls) /\ v # JNull
        THEN IF decoding.mode = "python"
             THEN [t |-> "datetime", iso |-> Respelled(v.s)]
             ELSE JStr(Respelled(v.s))
        ELSE v

FilterTable ==
    {<<"contract_id", "contract__contract_id">>,
     <<"event_type", "event_type">>,
     <<"ledger", "ledger">>,
     <<"ledger_min", "ledger__gte">>,
     <<"ledger_max", "ledger__lte">>,
     <<"validation_status", "validation_status">>}

\* The filter keys of a parameter map: every key but the three of paging
\* and ordering.
FilterKeys(params) == DOMAIN params.o \ {"page", "page_size", "ordering"}

\* A parameter map follows the table for the call's arguments.
FollowsTable(params) ==
    /\ FilterKeys(params) \subseteq {e[2] : e \in FilterTable}
    /\ \A e \in FilterTable :
          /\ e[2] \in DOMAIN params.o => params.o[e[2]] = args[e[1]]
          /\ (args[e[1]] # JNull /\ args[e[1]] # JStr("")) =>
                e[2] \in DOMAIN params.o
    /\ "ordering" \in DOMAIN params.o
    /\ params.o["ordering"] =
          IF args.ordering = Unset THEN JStr("-timestamp") ELSE args.ordering

\* C27: get_events (of both clients) maps its filter arguments to
\* query-parameter names by the fixed table contract_id ->
\* contract__contract_id, event_type -> event_type, ledger -> ledger,
\* ledger_min -> ledger__gte, ledger_max -> ledger__lte, validation_status ->
\* validation_status; each emitted value equals the argument, no other
\* filter key is emitted, and ordering is always emitted, "-timestamp" when
\* the caller gives none.
C27_FilterTable ==
    op = "get_events" =>
        /\ FollowsTable(request.params)
        /\ FollowsTable(AsyncRequest(op, args, client).params)

\* C27 witness: get_events(ledger_min=0, ledger_max=100000,
\* validation_status="failed", event_type="transfer") sent ledger__gte=0,
\* ledger__lte=100000 and the default ordering.
C27_Witness ==
    /\ op = "get_events"
    /\ args.ledger_min = JInt(0)
    /\ args.ledger_max = JInt(100000)
    /\ args.validation_status = JStr("failed")
    /\ args.event_type = JStr("transfer")
    /\ args.ordering = Unset
    /\ request.params.o["ledger__gte"] = JInt(0)
    /\ request.params.o["ledger__lte"] = JInt(100000)
    /\ request.params.o["validation_status"] = JStr("failed")
    /\ request.params.o["ordering"] = JStr("-timestamp")
    /\ "ledger" \notin DOMAIN request.params.o

----------------------------------------------------------------------------
(* C28: the request URL of every operation is the configured base URL with *)
(* its trailing slashes removed, followed by the operation's path from the  *)
(* wire table; no part of the configured base URL is dropped, also when it  *)
(* carries a path prefix of its own.                                       *)

\* The base URLs as callers write them, each with the text it has once its
\* trailing slashes are removed.
WithoutTrailingSlashes ==
    (<<"https://api.soroscan.io">> :> "https://api.soroscan.io") @@
    (<<"https://api.test.soroscan.io">> :> "https://api.test.soroscan.io") @@
    (<<"https://api.soroscan.io", "/">> :> "https://api.soroscan.io") @@
    (<<"https://api.soroscan.io", "/", "/">> :> "https://api.soroscan.io") @@
    (<<"https://host", "/", "v1">> :> "https://host/v1") @@
    (<<"https://host", "/", "v1", "/">> :> "https://host/v1")

\* A call of a client constructed with a base_url has handed a request to
\* the transport.
SentFromDeployment ==
    /\ server.t = "httpx_mock"
    /\ op # "none"
    /\ request # NoRequest

\* C28: the URL a call sends is its client's configured base URL, without
\* trailing slashes, followed by the wire table's path of the operation.
C28_UrlKeepsBase ==
    SentFromDeployment =>
        request.url = WithoutTrailingSlashes[server.base_url] \o WirePath(op, args)

----------------------------------------------------------------------------
(* C29: the body of a partial update holds exactly the fields the caller   *)
(* supplied; create_contract always sends contract_id, name and            *)
(* description, and abi_schema only when a non-empty schema is given;      *)
(* create_webhook always sends contract, target_url and event_type.        *)

\* The optional arguments of the two partial updates.
UpdateFields ==
    [update_contract |-> {"name", "description", "is_active"},
     update_webhook |-> {"target_url", "event_type", "is_active"}]

\* The keys of the JSON body the call handed to the transport.
BodyKeys == DOMAIN request.json.o

\* The arguments of the update the caller supplied (did not leave None).
Supplied == {f \in UpdateFields[op] : args[f] # JNull}

\* A schema was given and it has at least one entry.
NonEmptySchema == args.abi_schema.t = "obj" /\ DOMAIN args.abi_schema.o # {}

\* C29: an update's body has the supplied arguments as its keys, each with
\* the value supplied, and no other key; the bodies of the two creations
\* have their fixed keys, and abi_schema exactly when the schema given is
\* not empty.
C29_BodiesHoldWhatWasSupplied ==
    /\ op \in DOMAIN UpdateFields =>
          /\ BodyKeys = Supplied
          /\ \A f \in Supplied : request.json.o[f] = args[f]
    /\ op = "create_contract" =>
          /\ {"contract_id", "name", "description"} \subseteq BodyKeys
          /\ BodyKeys \subseteq {"contract_id", "name", "description", "abi_schema"}
          /\ "abi_schema" \in BodyKeys <=> NonEmptySchema
    /\ op = "create_webhook" =>
          BodyKeys = {"contract", "target_url", "event_type"}

\* An update was sent whose caller supplied False and the empty string and
\* left the third argument out.
C29_Witness ==
    /\ op = "update_contract"
    /\ args.name = JStr("")
    /\ args.description = JNull
    /\ args.is_active = JBool(FALSE)
    /\ BodyKeys = {"name", "is_active"}
    /\ response.tag = "response"

----------------------------------------------------------------------------
(* C30: a facade call that ends in an error leaves the client unchanged    *)
(* and usable: after any sequence of calls, successful or failed, the      *)
(* client's base_url, api_key, timeout and transport resource are the ones *)
(* set at construction, the transport is unreleased until close() is       *)
(* called, and a later call behaves as it would on a fresh client.         *)

\* A facade method is called; a call returns or raises to its caller, who
\* stays where they were with respect to the `with` block.
CallStep == op = "none" /\ op' # "none"
ReturnStep == op # "none" /\ op' = "none" /\ scope' = scope

\* The clients __init__ builds for the default deployment: its arguments
\* in the fields, nothing else.
AsConstructed ==
    {[base_url |-> <<"https://api.soroscan.io">>, api_key |-> k,
      timeout |-> 30, _client |-> 1] :
        k \in {JNull, JStr(""), JStr("test-api-key-12345")}}

\* Between two calls, with close() not called: the client and its open
\* transport are as they were after construction, and nothing of an earlier
\* call is left for the next call to read.
AsFresh ==
    /\ client \in AsConstructed
    /\ transport = <<[is_closed |-> FALSE]>>
    /\ request = NoRequest
    /\ response = NoResponse
    /\ outcome = NoOutcome
    /\ args = <<>>
    /\ json_calls = 0
    /\ transport_calls = 0
    /\ sent_via = 0

====
